---- MODULE Spec2Model ----
(***************************************************************************)
(* Attachment discovery, filtering and download of the web-archive         *)
(* scraper (app/components): the platform collectors, the downloader       *)
(* strategies with their filename resolution, and the per-page attachment  *)
(* loop.                                                                   *)
(*                                                                         *)
(* Text (URLs, header values, file names) is a sequence of one-character   *)
(* strings, so that substring tests, suffix tests, URL parsing and name    *)
(* normalisation are computed the way the Python code computes them.       *)
(***************************************************************************)
EXTENDS Integers, Sequences, FiniteSets, TLC

VARIABLES
    cfg,        \* the configuration record of the run (BaseConfig)
    page,       \* the loaded browser page: url, DOM elements, redirect, meta refresh
    links,      \* the list a collector returned for the page
    collector,  \* which collector produced links ("none" before any ran)
    self_config, \* the config the downloader was built with (NoConfig: none)
    disk,       \* the target directory: file name -> content
    pc,         \* where the control is
    cur,        \* the download call in progress, or the last one that returned
    resolved,   \* the last direct call of _get_unique_filename: its argument and result
    ncalls,     \* how many download calls were made on the directory
    title,      \* the preferred_title _save_attachments was called with
    idx,        \* the position of the `for url in links` loop
    saved,      \* the counter of _save_attachments
    attempts,   \* the download calls _save_attachments made on this page, in order
    counts,     \* the values _save_attachments returned, one per page
    supplied,   \* run() was given a downloader by its caller
    sess        \* run(): the browser context, the login and the item pages handled so far

vars ==
    <<cfg, page, links, collector, self_config, disk, pc, cur, resolved, ncalls,
      title, idx, saved, attempts, counts, supplied, sess>>

dlVars == <<self_config, disk, pc, cur, resolved, ncalls>>

loopVars == <<title, idx, saved, attempts, counts, supplied>>

\* Python's None, a value that is no text
None == <<"None">>

(***************************************************************************)
(* Text helpers: str.startswith, str.endswith, the `in` substring test,    *)
(* str.lower.                                                              *)
(***************************************************************************)
StartsWith(s, t) ==
    /\ Len(t) <= Len(s)
    /\ SubSeq(s, 1, Len(t)) = t

EndsWith(s, t) ==
    /\ Len(t) <= Len(s)
    /\ SubSeq(s, Len(s) - Len(t) + 1, Len(s)) = t

Contains(s, t) ==
    \E i \in 1..(Len(s) - Len(t) + 1) : SubSeq(s, i, i + Len(t) - 1) = t

EndsWithAny(s, ts) == \E t \in ts : EndsWith(s, t)

UpperToLower ==
    [c \in {"A", "B", "C", "D", "E", "F", "G", "H", "I", "J", "K", "L", "M",
            "N", "O", "P", "Q", "R", "S", "T", "U", "V", "W", "X", "Y", "Z"} |->
        CASE c = "A" -> "a" [] c = "B" -> "b" [] c = "C" -> "c" [] c = "D" -> "d"
          [] c = "E" -> "e" [] c = "F" -> "f" [] c = "G" -> "g" [] c = "H" -> "h"
          [] c = "I" -> "i" [] c = "J" -> "j" [] c = "K" -> "k" [] c = "L" -> "l"
          [] c = "M" -> "m" [] c = "N" -> "n" [] c = "O" -> "o" [] c = "P" -> "p"
          [] c = "Q" -> "q" [] c = "R" -> "r" [] c = "S" -> "s" [] c = "T" -> "t"
          [] c = "U" -> "u" [] c = "V" -> "v" [] c = "W" -> "w" [] c = "X" -> "x"
          [] c = "Y" -> "y" [] c = "Z" -> "z"]

Lower(s) ==
    [i \in 1..Len(s) |-> IF s[i] \in DOMAIN UpperToLower THEN UpperToLower[s[i]] ELSE s[i]]

\* index of the first element of s that is in cs, or Len(s) + 1 when there is none
FirstOf(s, cs) ==
    IF \E i \in 1..Len(s) : s[i] \in cs
    THEN CHOOSE i \in 1..Len(s) : s[i] \in cs /\ \A j \in 1..(i - 1) : s[j] \notin cs
    ELSE Len(s) + 1

\* index of the last element of s that is in cs, or 0 when there is none
LastOf(s, cs) ==
    IF \E i \in 1..Len(s) : s[i] \in cs
    THEN CHOOSE i \in 1..Len(s) : s[i] \in cs /\ \A j \in (i + 1)..Len(s) : s[j] \notin cs
    ELSE 0

DedupNone(xs) == xs

\* list(dict.fromkeys(xs)): the first occurrence of every element, in order
RECURSIVE Dedup(_)
Dedup(xs) ==
    IF xs = <<>> THEN <<>>
    ELSE LET front == Dedup(SubSeq(xs, 1, Len(xs) - 1))
             x == xs[Len(xs)]
         IN  IF \E i \in 1..Len(front) : front[i] = x THEN front ELSE Append(front, x)

\* the concatenation of f(xs[1]), f(xs[2]), ...: a loop appending to one list
RECURSIVE FlatMap(_, _)
FlatMap(f(_), xs) ==
    IF xs = <<>> THEN <<>>
    ELSE IF Len(xs) = 1 THEN f(xs[1])
    ELSE FlatMap(f, SubSeq(xs, 1, Len(xs) \div 2))
         \o FlatMap(f, SubSeq(xs, Len(xs) \div 2 + 1, Len(xs)))

(***************************************************************************)
(* Literals of the source.                                                 *)
(***************************************************************************)
sHttp == <<"h", "t", "t", "p", ":", "/", "/">>
sHttps == <<"h", "t", "t", "p", "s", ":", "/", "/">>
sModeDl == <<"m", "o", "d", "e", "=", "d", "l">>
sModeRaw == <<"m", "o", "d", "e", "=", "r", "a", "w">>
sZip == <<".", "z", "i", "p">>
sTgz == <<".", "t", "g", "z">>
sTarGz == <<".", "t", "a", "r", ".", "g", "z">>
sGz == <<".", "g", "z">>
sPdf == <<".", "p", "d", "f">>
sPng == <<".", "p", "n", "g">>
sJpg == <<".", "j", "p", "g">>
sJpeg == <<".", "j", "p", "e", "g">>
sGif == <<".", "g", "i", "f">>
sDoc == <<".", "d", "o", "c">>
sDocx == <<".", "d", "o", "c", "x">>
sPpt == <<".", "p", "p", "t">>
sPptx == <<".", "p", "p", "t", "x">>
sXls == <<".", "x", "l", "s">>
sXlsx == <<".", "x", "l", "s", "x">>
sPluginfilePhp == <<"p", "l", "u", "g", "i", "n", "f", "i", "l", "e", ".", "p", "h", "p">>
sForcedownload1 == <<"f", "o", "r", "c", "e", "d", "o", "w", "n", "l", "o", "a", "d", "=", "1">>

(***************************************************************************)
(* URLs: urllib.parse.urlparse and urljoin, utils.full_url.                *)
(***************************************************************************)
SchemeChars ==
    {"a", "b", "c", "d", "e", "f", "g", "h", "i", "j", "k", "l", "m", "n", "o",
     "p", "q", "r", "s", "t", "u", "v", "w", "x", "y", "z", "+", "-", ".",
     "0", "1", "2", "3", "4", "5", "6", "7", "8", "9"} \cup DOMAIN UpperToLower

\* length of the "scheme:" prefix of a URL, 0 when it has none
SchemeLen(url) ==
    LET c == FirstOf(url, {":"})
    IN  IF /\ c <= Len(url)
           /\ c > 1
           /\ url[1] \notin {"+", "-", ".", "0", "1", "2", "3", "4", "5", "6", "7", "8", "9"}
           /\ \A i \in 1..(c - 1) : url[i] \in SchemeChars
        THEN c ELSE 0

\* urlparse(url): scheme, netloc, path, query, fragment
UrlParse(url) ==
    LET fields(netloc, noFrag, fragment) ==
            LET qAt == FirstOf(noFrag, {"?"})
            IN  [scheme |-> Lower(SubSeq(url, 1, SchemeLen(url) - 1)),
                 netloc |-> netloc,
                 path |-> SubSeq(noFrag, 1, qAt - 1),
                 query |-> SubSeq(noFrag, qAt + 1, Len(noFrag)),
                 fragment |-> fragment]
        \* tail is what follows the netloc: the path, the query and the fragment
        parts(netloc, tail) ==
            LET fragAt == FirstOf(tail, {"#"})
            IN  fields(netloc, SubSeq(tail, 1, fragAt - 1), SubSeq(tail, fragAt + 1, Len(tail)))
        afterSlashes(afterNet) ==
            LET netEnd == FirstOf(afterNet, {"/", "?", "#"})
            IN  parts(SubSeq(afterNet, 1, netEnd - 1), SubSeq(afterNet, netEnd, Len(afterNet)))
        afterScheme(rest) ==
            IF StartsWith(rest, <<"/", "/">>)
            THEN afterSlashes(SubSeq(rest, 3, Len(rest)))
            ELSE parts(<<>>, rest)
    IN  afterScheme(SubSeq(url, SchemeLen(url) + 1, Len(url)))

\* urljoin(base, ref) for a base of the form scheme://host (no path, as every
\* configured cfg.base), and a reference that is absolute, scheme-relative
\* (//host/...), host-relative (/path) or a relative path
UrlJoin(base, ref) ==
    LET join(scheme, origin) ==
            IF ref = <<>> THEN base
            ELSE IF SchemeLen(ref) > 0 THEN ref
            ELSE IF StartsWith(ref, <<"/", "/">>) THEN scheme \o ref
            ELSE IF ref[1] = "/" THEN origin \o ref
            ELSE IF ref[1] \in {"?", "#"} THEN base \o ref
            ELSE origin \o <<"/">> \o ref
        from(scheme) == join(scheme, scheme \o <<"/", "/">> \o UrlParse(base).netloc)
    IN  from(SubSeq(base, 1, SchemeLen(base)))

full_url(base, path_or_url) ==
    IF StartsWith(path_or_url, sHttp) \/ StartsWith(path_or_url, sHttps)
    THEN path_or_url
    ELSE UrlJoin(base, path_or_url)

\* `host in self.cfg.allowed_resource_hosts`: tuple membership, exact equality
HostAllowedMissing(c, url) == TRUE

HostAllowed(c, url) == UrlParse(url).netloc \in c.allowed_resource_hosts

(***************************************************************************)
(* The page capability: what the collectors read from a loaded page.       *)
(*   elems    the DOM elements that carry a link, in document order:       *)
(*            tag "a" (an anchor), "a.download" (an anchor with class      *)
(*            download) or "iframe", and its href/src attribute            *)
(*   url      page.url                                                     *)
(*   redirect the final URL of page.request.get(page.url), None when the   *)
(*            request fails or is not OK                                   *)
(*   meta     the url= value of a meta refresh tag, None without one       *)
(***************************************************************************)
\* page.eval_on_selector_all("a[href]", ...): the href of every anchor
AnchorHrefs(pg) ==
    LET pick(e) == IF e.tag \in {"a", "a.download"} /\ e.href # <<>> THEN <<e.href>> ELSE <<>>
    IN  FlatMap(pick, pg.elems)

RoeseliteRulesNoFlags(c, url) ==
    LET u == Lower(url)
    IN  IF \/ Contains(u, sModeDl) \/ Contains(u, sModeRaw) \/ EndsWith(u, sZip)
           \/ EndsWithAny(u, {sTgz, sTarGz, sGz}) \/ EndsWith(u, sPdf)
           \/ EndsWithAny(u, {sPng, sJpg, sJpeg})
        THEN <<url>> ELSE <<>>

\* the appends of one loop iteration of RoeseliteScraper.collect_attachments
RoeseliteRules(c, url) ==
    LET u == Lower(url)
    IN  (IF c.include_mode_dl /\ Contains(u, sModeDl) THEN <<url>> ELSE <<>>)
        \o (IF c.include_mode_raw /\ Contains(u, sModeRaw) THEN <<url>> ELSE <<>>)
        \o (IF c.include_archive_zip /\ EndsWith(u, sZip) THEN <<url>> ELSE <<>>)
        \o (IF c.include_archive_tgz /\ EndsWithAny(u, {sTgz, sTarGz, sGz}) THEN <<url>> ELSE <<>>)
        \o (IF c.include_pdfs /\ EndsWith(u, sPdf) THEN <<url>> ELSE <<>>)
        \o (IF c.include_images /\ EndsWithAny(u, {sPng, sJpg, sJpeg}) THEN <<url>> ELSE <<>>)

RoeseliteCollect(c, pg) ==
    LET one(h) ==
            LET url == full_url(c.base, h)
            IN  IF ~HostAllowed(c, url) THEN <<>> ELSE RoeseliteRules(c, url)
    IN  Dedup(FlatMap(one, AnchorHrefs(pg)))

\* the appends of one loop iteration of the legacy Scraper._collect_resource_links
LegacyRules(c, url) ==
    LET u == Lower(url)
    IN  (IF c.include_mode_dl /\ Contains(u, sModeDl) THEN <<url>> ELSE <<>>)
        \o (IF c.include_mode_raw /\ Contains(u, sModeRaw) THEN <<url>> ELSE <<>>)
        \o (IF c.include_archive_zip /\ EndsWith(u, sZip) THEN <<url>> ELSE <<>>)
        \o (IF c.include_archive_tgz /\ EndsWithAny(u, {sTgz, sTarGz, sGz}) THEN <<url>> ELSE <<>>)
        \o (IF c.include_pdfs /\ EndsWith(u, sPdf) THEN <<url>> ELSE <<>>)
        \o (IF c.include_images /\ EndsWithAny(u, {sPng, sJpg, sJpeg}) THEN <<url>> ELSE <<>>)

LegacyCollect(c, pg) ==
    LET one(h) ==
            LET url == full_url(c.base, h)
            IN  IF ~HostAllowed(c, url) THEN <<>> ELSE LegacyRules(c, url)
    IN  Dedup(FlatMap(one, AnchorHrefs(pg)))

(***************************************************************************)
(* MoodleScraper.collect_attachments: six discovery strategies, each with  *)
(* its own host check, then the file-type filter and its fallback.         *)
(***************************************************************************)
IsAnchor(e) == e.tag \in {"a", "a.download"}

HasMoodleMarker(s) == Contains(s, sPluginfilePhp) \/ Contains(s, sForcedownload1)

\* Strategies 1 and 2: a[href*="pluginfile.php"], a[href*="forcedownload=1"]
MoodleFromAnchors(c, pg, marker) ==
    LET pick(e) ==
            IF IsAnchor(e) /\ e.href # <<>> /\ Contains(e.href, marker)
            THEN LET url == full_url(c.base, e.href)
                 IN  IF HostAllowed(c, url) THEN <<url>> ELSE <<>>
            ELSE <<>>
    IN  FlatMap(pick, pg.elems)

\* Strategy 3: the page itself is a pluginfile.php URL
MoodleFromCurrentUrl(c, pg) ==
    IF Contains(pg.url, sPluginfilePhp) /\ HostAllowed(c, pg.url) THEN <<pg.url>> ELSE <<>>

\* Strategy 3b: the request for the page URL was redirected to a pluginfile.php URL
MoodleFromRedirect(c, pg) ==
    IF /\ pg.redirect # None
       /\ Contains(pg.redirect, sPluginfilePhp)
       /\ pg.redirect # pg.url
       /\ HostAllowed(c, pg.redirect)
    THEN <<pg.redirect>> ELSE <<>>

\* Strategy 4: one pass per selector of download_selectors; an anchor of class
\* download is matched by 'a.download' and by 'a[class*="download"]'
MoodleFromDownloadClass(c, pg) ==
    LET pick(e) ==
            IF e.tag = "a.download" /\ e.href # <<>>
            THEN LET url == full_url(c.base, e.href)
                 IN  IF HasMoodleMarker(url) /\ HostAllowed(c, url) THEN <<url>> ELSE <<>>
            ELSE <<>>
    IN  FlatMap(pick, pg.elems) \o FlatMap(pick, pg.elems)

\* Strategy 5: iframe[src]
MoodleFromIframes(c, pg) ==
    LET pick(e) ==
            IF e.tag = "iframe" /\ e.href # <<>> /\ HasMoodleMarker(e.href)
            THEN LET url == full_url(c.base, e.href)
                 IN  IF HostAllowed(c, url) THEN <<url>> ELSE <<>>
            ELSE <<>>
    IN  FlatMap(pick, pg.elems)

\* Strategy 6: meta refresh, its url used as written
MoodleFromMeta(c, pg) ==
    IF /\ pg.meta # None
       /\ Contains(pg.meta, sPluginfilePhp)
       /\ HostAllowed(c, pg.meta)
    THEN <<pg.meta>> ELSE <<>>

MoodleDiscover(c, pg) ==
    MoodleFromAnchors(c, pg, sPluginfilePhp)
    \o MoodleFromAnchors(c, pg, sForcedownload1)
    \o MoodleFromCurrentUrl(c, pg)
    \o MoodleFromRedirect(c, pg)
    \o MoodleFromDownloadClass(c, pg)
    \o MoodleFromIframes(c, pg)
    \o MoodleFromMeta(c, pg)

\* should_include of the file-type filter: an if/elif chain
MoodleShouldInclude(c, url) ==
    LET u == Lower(url)
    IN  IF c.include_pdfs /\ EndsWith(u, sPdf) THEN TRUE
        ELSE IF c.include_archive_zip /\ EndsWith(u, sZip) THEN TRUE
        ELSE IF c.include_archive_tgz /\ EndsWithAny(u, {sTgz, sTarGz, sGz}) THEN TRUE
        ELSE IF c.include_images /\ EndsWithAny(u, {sPng, sJpg, sJpeg, sGif}) THEN TRUE
        ELSE IF c.include_mode_dl \/ c.include_mode_raw THEN TRUE
        ELSE EndsWithAny(u, {sPdf, sDoc, sDocx, sPpt, sPptx, sXls, sXlsx})

\* the fallback: nothing passed the filter, so every discovered URL is returned
MoodleFallback(download_urls, filtered_urls) ==
    IF filtered_urls = <<>> /\ download_urls # <<>> THEN download_urls ELSE filtered_urls

MoodleCollect(c, pg) ==
    LET download_urls == MoodleDiscover(c, pg)
        keep(url) == IF MoodleShouldInclude(c, url) THEN <<url>> ELSE <<>>
        filtered_urls == FlatMap(keep, download_urls)
    IN  Dedup(MoodleFallback(download_urls, filtered_urls))

(***************************************************************************)
(* File names: utils.safe_filename, utils.suggest_filename and the helpers *)
(* of os.path and urllib.parse they use.  A character outside ASCII is     *)
(* written by its code point ("U+00E4" is a-umlaut).                       *)
(***************************************************************************)
Whitespace == {" ", "\t", "\n"}

\* str.strip(chars) / str.rstrip(chars)
RECURSIVE LStrip(_, _)
LStrip(s, cs) == IF s # <<>> /\ Head(s) \in cs THEN LStrip(Tail(s), cs) ELSE s

RECURSIVE RStrip(_, _)
RStrip(s, cs) ==
    IF s # <<>> /\ s[Len(s)] \in cs THEN RStrip(SubSeq(s, 1, Len(s) - 1), cs) ELSE s

Strip(s, cs) == LStrip(RStrip(s, cs), cs)

umlaut_map ==
    [c \in {"U+00C4", "U+00E4", "U+00D6", "U+00F6", "U+00DC", "U+00FC", "U+00DF", "U+1E9E"} |->
        CASE c = "U+00C4" -> <<"A", "e">> [] c = "U+00E4" -> <<"a", "e">>
          [] c = "U+00D6" -> <<"O", "e">> [] c = "U+00F6" -> <<"o", "e">>
          [] c = "U+00DC" -> <<"U", "e">> [] c = "U+00FC" -> <<"u", "e">>
          [] c = "U+00DF" -> <<"s", "s">> [] c = "U+1E9E" -> <<"S", "S">>]

normalize_umlauts(text) ==
    LET one(ch) == IF ch \in DOMAIN umlaut_map THEN umlaut_map[ch] ELSE <<ch>>
    IN  FlatMap(one, text)

\* unicodedata.normalize('NFKD', text).encode('ascii', 'ignore').decode('ascii'):
\* an accented letter keeps its base letter, any other non-ASCII character is dropped
NfkdBase ==
    [c \in {"U+00E9", "U+00F1", "U+00C9", "U+FF0F"} |->
        CASE c = "U+00E9" -> "e" [] c = "U+00F1" -> "n" [] c = "U+00C9" -> "E"
          [] c = "U+FF0F" -> "/"]

NonAscii == DOMAIN umlaut_map \cup DOMAIN NfkdBase \cup {"U+6F22"}

IsAscii(ch) == ch \notin NonAscii

AsciiFold(text) ==
    LET one(ch) == IF IsAscii(ch) THEN <<ch>>
                   ELSE IF ch \in DOMAIN NfkdBase THEN <<NfkdBase[ch]>>
                   ELSE <<>>
    IN  FlatMap(one, text)

\* re.sub(r'[<>:"/\\|?*]', '_', text)
ReplaceProblematic(text) ==
    [i \in 1..Len(text) |->
        IF text[i] \in {"<", ">", ":", "\"", "/", "\\", "|", "?", "*"} THEN "_" ELSE text[i]]

\* re.sub(r'[\s_]+', '_', text): every run of whitespace and underscores becomes one underscore
CollapseRuns(text) ==
    LET one(i) == IF text[i] \notin Whitespace \cup {"_"} THEN <<text[i]>>
                  ELSE IF i > 1 /\ text[i - 1] \in Whitespace \cup {"_"} THEN <<>>
                  ELSE <<"_">>
    IN  FlatMap(one, [i \in 1..Len(text) |-> i])

sPage == <<"p", "a", "g", "e">>

\* safe_filename that cuts at max_len and leaves what the cut ends in
safe_filename_cut(text, max_len) ==
    IF text = <<>> \/ text = None THEN sPage
    ELSE LET t1 == Strip(text, Whitespace)
             t2 == normalize_umlauts(t1)
             t3 == AsciiFold(t2)
             t4 == ReplaceProblematic(t3)
             t5 == CollapseRuns(t4)
             t6 == Strip(t5, {"_", "."})
             t7 == IF Len(t6) > max_len THEN SubSeq(t6, 1, max_len) ELSE t6
         IN  IF t7 = <<>> THEN sPage ELSE t7

safe_filename_len(text, max_len) ==
    IF text = <<>> \/ text = None THEN sPage
    ELSE LET t1 == Strip(text, Whitespace)
             t2 == normalize_umlauts(t1)
             t3 == AsciiFold(t2)
             t4 == ReplaceProblematic(t3)
             t5 == CollapseRuns(t4)
             t6 == Strip(t5, {"_", "."})
             t7 == IF Len(t6) > max_len
                   THEN RStrip(SubSeq(t6, 1, max_len), {"_", "."})
                   ELSE t6
         IN  IF t7 = <<>> THEN sPage ELSE t7

\* the default of safe_filename's max_len parameter
SafeMaxLen == 90

safe_filename(text) == safe_filename_len(text, SafeMaxLen)

\* os.path.basename
Basename(p) == SubSeq(p, LastOf(p, {"/"}) + 1, Len(p))

\* os.path.splitext: <<root, ext>>; the extension starts at the last dot of the
\* last path component, unless only dots precede it there
Splitext(p) ==
    LET sep == LastOf(p, {"/"})
        dot == LastOf(p, {"."})
    IN  IF dot > sep /\ \E k \in (sep + 1)..(dot - 1) : p[k] # "."
        THEN <<SubSeq(p, 1, dot - 1), SubSeq(p, dot, Len(p))>>
        ELSE <<p, <<>>>>

\* str.split(sep) for a one-character separator
RECURSIVE Split(_, _)
Split(s, sep) ==
    LET at == FirstOf(s, {sep})
    IN  IF at > Len(s) THEN <<s>>
        ELSE <<SubSeq(s, 1, at - 1)>> \o Split(SubSeq(s, at + 1, Len(s)), sep)

\* urllib.parse.unquote for the escapes %2F, %2E and %20
PercentCodes ==
    [code \in {<<"2", "F">>, <<"2", "f">>, <<"2", "E">>, <<"2", "e">>, <<"2", "0">>} |->
        CASE code \in {<<"2", "F">>, <<"2", "f">>} -> "/"
          [] code \in {<<"2", "E">>, <<"2", "e">>} -> "."
          [] code = <<"2", "0">> -> " "]

RECURSIVE Unquote(_)
Unquote(s) ==
    IF s = <<>> THEN <<>>
    ELSE IF Head(s) = "%" /\ Len(s) >= 3 /\ SubSeq(s, 2, 3) \in DOMAIN PercentCodes
         THEN <<PercentCodes[SubSeq(s, 2, 3)]>> \o Unquote(SubSeq(s, 4, Len(s)))
         ELSE <<Head(s)>> \o Unquote(Tail(s))

PlusToSpace(s) == [i \in 1..Len(s) |-> IF s[i] = "+" THEN " " ELSE s[i]]

\* dict(parse_qsl(query)).get(key): the value of the last name=value pair with
\* that name; pairs without "=" or with an empty value are skipped; None when absent
QueryValue(query, key) ==
    LET parts == Split(query, "&")
        nameOf(nv) == Unquote(PlusToSpace(SubSeq(nv, 1, FirstOf(nv, {"="}) - 1)))
        valueOf(nv) == Unquote(PlusToSpace(SubSeq(nv, FirstOf(nv, {"="}) + 1, Len(nv))))
        kept(i) == /\ FirstOf(parts[i], {"="}) <= Len(parts[i])
                   /\ FirstOf(parts[i], {"="}) < Len(parts[i])
                   /\ nameOf(parts[i]) = key
        hits == {i \in 1..Len(parts) : kept(i)}
    IN  IF hits = {} THEN None
        ELSE valueOf(parts[CHOOSE i \in hits : \A j \in hits : j <= i])

sFile == <<"f", "i", "l", "e">>
sMode == <<"m", "o", "d", "e">>

\* suggest_filename(url, target_dir); names is the set of names present in target_dir
suggest_filename(url, names) ==
    LET orFile(b) == IF b = <<>> THEN sFile ELSE b
        suffixed(se, mode) ==
            se[1] \o (IF mode # None THEN <<"_", "_">> \o sMode \o <<"=">> \o mode ELSE <<>>) \o se[2]
        named(base_name, query) ==
            IF base_name \notin names THEN base_name
            ELSE suffixed(Splitext(base_name), QueryValue(query, sMode))
        of(p) == named(safe_filename(orFile(Basename(p.path))), p.query)
    IN  of(UrlParse(url))

(***************************************************************************)
(* The downloaders (components/downloader.py).                             *)
(*                                                                         *)
(* A target directory is a function from the names of its files to their   *)
(* content.  A path is <<directory, name>>.  A download returns an outcome *)
(* record:                                                                 *)
(*   raised  an exception left the function                                *)
(*   result  the returned file name, or None                               *)
(*   files   the target directory afterwards                               *)
(*   page    the browser page afterwards                                   *)
(*   why     "saved", "exists" (skip), "http" (response not OK),           *)
(*           "nolink" (nothing to click), "error" (a caught exception)     *)
(*   base    the file name that was resolved, None when none was           *)
(*   from    the URL whose transfer was written to disk, None when nothing *)
(*           was written                                                   *)
(*   goto    (click downloader only) page.goto(url) was called             *)
(***************************************************************************)
Falsy(x) == x = None \/ x = <<>>

PathJoin(target_dir, name) == <<target_dir, name>>

Exists(files, name) == name \in DOMAIN files

\* the directory with content written to name
WriteFile(files, name, content) ==
    [n \in DOMAIN files \cup {name} |-> IF n = name THEN content ELSE files[n]]

\* a downloader built without a config (Downloader.__init__'s default config=None)
NoConfig == [none |-> TRUE]

ConfigGiven(config) == "none" \notin DOMAIN config

get_unique_filename_always(config, base_filename, target_dir, files) ==
    PathJoin(target_dir, base_filename)

get_unique_filename_skips(config, base_filename, target_dir, files) ==
    IF Exists(files, base_filename) THEN None ELSE PathJoin(target_dir, base_filename)

\* Downloader._get_unique_filename: the target path, or None for a skip
get_unique_filename(config, base_filename, target_dir, files) ==
    LET target == PathJoin(target_dir, base_filename)
    IN  IF ~Exists(files, base_filename) THEN target
        ELSE IF ConfigGiven(config) /\ config.replace_existing_files THEN target
        ELSE None

sFilenameKey == <<"f", "i", "l", "e", "n", "a", "m", "e">>
sUtf8Prefix == <<"U", "T", "F", "-", "8", "'", "'">>

\* group 1 of re.search(r'filename[*]?=(?:UTF-8\'\')?["\']?([^"\';]+)', header) when
\* the match starts at index i, None when the pattern does not match there
CdMatchAt(s, i) ==
    LET stop == {"\"", "'", ";"}
        run(m) == LET rest == SubSeq(s, m, Len(s))
                  IN  SubSeq(rest, 1, FirstOf(rest, stop) - 1)
        \* ["\']? is greedy: the quote is taken when the group can still match
        group(m) == IF m <= Len(s) /\ s[m] \in {"\"", "'"} /\ run(m + 1) # <<>>
                    THEN run(m + 1) ELSE run(m)
        j0 == i + Len(sFilenameKey)
        j1 == IF j0 <= Len(s) /\ s[j0] = "*" THEN j0 + 1 ELSE j0
        k == j1 + 1
        withPrefix == IF StartsWith(SubSeq(s, k, Len(s)), sUtf8Prefix)
                      THEN group(k + Len(sUtf8Prefix)) ELSE <<>>
    IN  IF ~StartsWith(SubSeq(s, i, Len(s)), sFilenameKey) THEN None
        ELSE IF ~(j1 <= Len(s) /\ s[j1] = "=") THEN None
        ELSE IF withPrefix # <<>> THEN withPrefix
        ELSE IF group(k) # <<>> THEN group(k)
        ELSE None

CdFilename(header) ==
    LET hits == {i \in 1..Len(header) : CdMatchAt(header, i) # None}
    IN  IF hits = {} THEN None
        ELSE CdMatchAt(header, CHOOSE i \in hits : \A j \in hits : i <= j)

sPdfWord == <<"p", "d", "f">>
sZipWord == <<"z", "i", "p">>

\* RequestDownloader._extract_filename; resp.cd and resp.ctype are the
\* content-disposition and content-type headers, <<>> when absent
extract_filename(url, resp, files, preferred_title) ==
    LET \* the extension a title gets when neither the header nor the URL path gave one
        inferred(ctype, url_lower) ==
            IF Contains(ctype, sPdfWord) THEN sPdf
            ELSE IF Contains(ctype, sZipWord) THEN sZip
            ELSE IF EndsWith(url_lower, sPdf) THEN sPdf
            ELSE IF EndsWith(url_lower, sZip) THEN sZip
            ELSE IF EndsWithAny(url_lower, {sDoc, sDocx}) THEN Splitext(url_lower)[2]
            ELSE <<>>
        titled(ext) ==
            safe_filename(preferred_title)
            \o (IF ext # <<>> THEN ext ELSE inferred(Lower(resp.ctype), Lower(url)))
        decoded(f) ==
            safe_filename(IF StartsWith(f, sUtf8Prefix)
                          THEN Unquote(SubSeq(f, Len(sUtf8Prefix) + 1, Len(f)))
                          ELSE f)
        \* m is group 1 of the match in the header, None without a match
        from(m) ==
            IF ~Falsy(preferred_title)
            THEN titled(IF resp.cd # <<>>
                        THEN (IF m # None THEN Splitext(Strip(m, Whitespace))[2] ELSE <<>>)
                        ELSE Splitext(UrlParse(url).path)[2])
            ELSE IF m # None THEN decoded(Strip(m, Whitespace))
            ELSE suggest_filename(url, DOMAIN files)
    IN  from(IF resp.cd # <<>> THEN CdFilename(resp.cd) ELSE None)

sTextWord == <<"t", "e", "x", "t">>
sJsonWord == <<"j", "s", "o", "n">>
sMd == <<".", "m", "d">>
sTxt == <<".", "t", "x", "t">>

\* the content RequestDownloader writes: the body of the response to url, as text or as bytes
ResponseContent(url, resp) ==
    LET ctype == Lower(resp.ctype)
    IN  [from |-> url,
         as |-> IF \/ Contains(ctype, sTextWord)
                   \/ Contains(ctype, sJsonWord)
                   \/ EndsWithAny(Lower(url), {sMd, sTxt})
                   \/ Contains(Lower(url), sModeRaw)
                THEN "text" ELSE "bytes"]

PartialContent(url) == [from |-> url, as |-> "partial"]

\* a write that reports success and leaves no file
WriteOutcomeLost(files, name, content, url, outcome) ==
    IF Contains(name, <<"/">>) THEN [raised |-> TRUE, files |-> files]
    ELSE CASE outcome = "ok" -> [raised |-> FALSE, files |-> files]
           [] outcome = "partial" -> [raised |-> TRUE, files |-> WriteFile(files, name, PartialContent(url))]
           [] OTHER -> [raised |-> TRUE, files |-> files]

\* what a write to <<dir, name>> does under the outcome the filesystem gives it:
\* a name with a separator names a file in a subdirectory that does not exist
WriteOutcome(files, name, content, url, outcome) ==
    IF Contains(name, <<"/">>) THEN [raised |-> TRUE, files |-> files]
    ELSE CASE outcome = "ok" -> [raised |-> FALSE, files |-> WriteFile(files, name, content)]
           [] outcome = "partial" -> [raised |-> TRUE, files |-> WriteFile(files, name, PartialContent(url))]
           [] OTHER -> [raised |-> TRUE, files |-> files]

Outcome(raised, result, files, pg, why, base, from) ==
    [raised |-> raised, result |-> result, files |-> files, page |-> pg,
     why |-> why, base |-> base, from |-> from]

RespOkAlways(env) == TRUE

\* resp.ok
RespOk(env) == env.kind = "ok"

\* the body of the try block of RequestDownloader.download
RequestBody(config, pg, url, target_dir, files, preferred_title, env) ==
    LET written(filename, w) ==
            IF w.raised THEN Outcome(TRUE, None, w.files, pg, "error", filename, None)
            ELSE Outcome(FALSE, filename, w.files, pg, "saved", filename, url)
        save(filename) ==
            IF get_unique_filename(config, filename, target_dir, files) = None
            THEN Outcome(FALSE, None, files, pg, "exists", filename, None)
            ELSE written(filename,
                         WriteOutcome(files, filename, ResponseContent(url, env), url, env.write))
    IN  IF env.kind = "error" THEN Outcome(TRUE, None, files, pg, "error", None, None)
        ELSE IF ~RespOk(env) THEN Outcome(FALSE, None, files, pg, "http", None, None)
        ELSE save(extract_filename(url, env, files, preferred_title))

CatchNothing(out) == out

\* `except Exception as e: print(...); return None`
CatchException(out) ==
    IF out.raised THEN [out EXCEPT !.raised = FALSE, !.result = None] ELSE out

RequestDownload(config, pg, url, target_dir, files, preferred_title, env) ==
    CatchException(RequestBody(config, pg, url, target_dir, files, preferred_title, env))

AnchorTags == {"a", "a.download", "a[download]"}

sPluginfile == <<"p", "l", "u", "g", "i", "n", "f", "i", "l", "e">>
sForcedownload == <<"f", "o", "r", "c", "e", "d", "o", "w", "n", "l", "o", "a", "d">>
sDownload == <<"d", "o", "w", "n", "l", "o", "a", "d">>

\* page.query_selector('a[href*="<path>"]'): the index in pg.elems of the first
\* anchor whose href attribute contains path, 0 when there is none
FindLink(pg, path) ==
    LET hits == {i \in 1..Len(pg.elems) :
                    /\ pg.elems[i].tag \in AnchorTags
                    /\ path # <<>>
                    /\ Contains(pg.elems[i].href, path)}
    IN  IF hits = {} THEN 0 ELSE CHOOSE i \in hits : \A j \in hits : i <= j

\* page.query_selector_all('a[href*="pluginfile"], a[href*="forcedownload"], a[download]')[0]
FirstDownloadLink(pg) ==
    LET hits == {i \in 1..Len(pg.elems) :
                    /\ pg.elems[i].tag \in AnchorTags
                    /\ \/ Contains(pg.elems[i].href, sPluginfile)
                       \/ Contains(pg.elems[i].href, sForcedownload)
                       \/ pg.elems[i].tag = "a[download]"}
    IN  IF hits = {} THEN 0 ELSE CHOOSE i \in hits : \A j \in hits : i <= j

\* the page the browser shows after it navigated to url
PageAt(url, elems) == [url |-> url, redirect |-> None, meta |-> None, elems |-> elems]

\* link.click() inside page.expect_download(timeout=30_000): the download event
\* arrives, or the wait times out (the click may have navigated the page), or
\* the click raises
ClickOn(pg, e, env) ==
    LET on(href) ==
            CASE env.click = "download" ->
                    [kind |-> "download", from |-> href, suggested |-> env.suggested, page |-> pg,
                     goto |-> FALSE]
              [] env.click = "navigated" ->
                    [kind |-> "error", from |-> None, suggested |-> <<>>,
                     page |-> PageAt(href, env.newElems), goto |-> FALSE]
              [] OTHER ->
                    [kind |-> "error", from |-> None, suggested |-> <<>>, page |-> pg,
                     goto |-> FALSE]
    IN  on(UrlJoin(pg.url, e.href))

\* ClickTry that goes to the URL first and clicks the first download link there
ClickTryGotoFirst(pg, url, env) ==
    LET none(kind, p) ==
            [kind |-> kind, from |-> None, suggested |-> <<>>, page |-> p, goto |-> TRUE]
        direct(np, di) ==
            IF env.goto = "error" THEN none("error", pg)
            ELSE IF env.goto = "committed" THEN none("error", np)
            ELSE IF di # 0 THEN [ClickOn(np, np.elems[di], env) EXCEPT !.goto = TRUE]
            ELSE none("nolink", np)
        navigated(np) == direct(np, FirstDownloadLink(np))
    IN  navigated(PageAt(url, env.newElems))

\* the inner try block of ClickDownloader.download: the download that was
\* triggered, or the reason there is none; goto tells whether page.goto(url)
\* was called
ClickTry(pg, url, env) ==
    LET none(kind, p, went) ==
            [kind |-> kind, from |-> None, suggested |-> <<>>, page |-> p, goto |-> went]
        \* page.goto(url, wait_until="networkidle", timeout=30_000), then the first download link
        direct(np, di) ==
            IF env.goto = "error" THEN none("error", pg, TRUE)
            ELSE IF env.goto = "committed" THEN none("error", np, TRUE)
            ELSE IF di # 0 THEN [ClickOn(np, np.elems[di], env) EXCEPT !.goto = TRUE]
            ELSE none("nolink", np, TRUE)
        navigated(np) == direct(np, FirstDownloadLink(np))
        try(path, li) ==
            IF Contains(path, <<"\"">>) THEN none("error", pg, FALSE)
            ELSE IF li # 0 THEN ClickOn(pg, pg.elems[li], env)
            ELSE navigated(PageAt(url, env.newElems))
        find(path) == try(path, FindLink(pg, path))
    IN  find(UrlParse(url).path)

\* the file name ClickDownloader gives a download
ClickFilename(url, suggested_filename, preferred_title) ==
    LET inferred(url_lower) ==
            IF EndsWith(url_lower, sPdf) THEN sPdf
            ELSE IF EndsWith(url_lower, sZip) THEN sZip
            ELSE Splitext(url_lower)[2]
        titled(ext) ==
            safe_filename(preferred_title) \o (IF ext # <<>> THEN ext ELSE inferred(Lower(url)))
        named(suggested_name) ==
            IF ~Falsy(preferred_title) THEN titled(Splitext(suggested_name)[2])
            ELSE safe_filename(suggested_name)
    IN  named(IF Falsy(suggested_filename) THEN sDownload ELSE suggested_filename)

\* an outcome of the click downloader: goto tells whether it called page.goto(url)
ClickOutcome(out, went) ==
    [raised |-> out.raised, result |-> out.result, files |-> out.files, page |-> out.page,
     why |-> out.why, base |-> out.base, from |-> out.from, goto |-> went]

\* the body of the outer try block of ClickDownloader.download
ClickBody(config, pg, url, target_dir, files, preferred_title, env) ==
    LET written(dl, filename, w) ==
            IF w.raised THEN Outcome(TRUE, None, w.files, dl.page, "error", filename, None)
            ELSE Outcome(FALSE, filename, w.files, dl.page, "saved", filename, dl.from)
        save(dl, filename) ==
            IF get_unique_filename(config, filename, target_dir, files) = None
            THEN Outcome(FALSE, None, files, dl.page, "exists", filename, None)
            ELSE written(dl, filename,
                         WriteOutcome(files, filename, [from |-> dl.from, as |-> "download"],
                                      dl.from, env.save))
        got(dl) ==
            ClickOutcome(IF dl.kind # "download"
                         THEN Outcome(FALSE, None, files, dl.page, dl.kind, None, None)
                         ELSE save(dl, ClickFilename(url, dl.suggested, preferred_title)),
                         dl.goto)
    IN  got(ClickTry(pg, url, env))

ClickDownload(config, pg, url, target_dir, files, preferred_title, env) ==
    CatchException(ClickBody(config, pg, url, target_dir, files, preferred_title, env))

AutoFallsBackAlways(result) == TRUE

AutoFallsBackNever(result) == FALSE

\* AutoDownloader.download: `if result: return result`, else the click downloader
AutoFallsBack(result) == Falsy(result)

\* create_downloader: the downloader a strategy starts with
FirstStage(strategy) == IF strategy = "click" THEN "click" ELSE "request"

(***************************************************************************)
(* The state of a download call.                                           *)
(***************************************************************************)
EmptyDir == [n \in {} |-> None]

TargetDir == "target_dir"

\* the environment of a stage that does not run
NoReqEnv == [kind |-> "none", cd |-> <<>>, ctype |-> <<>>, write |-> "ok"]

NoClkEnv == [click |-> "unset", suggested |-> <<>>, goto |-> "ok", newElems |-> <<>>, save |-> "ok"]

\* cur before any call
NoCall ==
    [url |-> None, title |-> None, rerun |-> FALSE, firstOk |-> FALSE, before |-> EmptyDir,
     calls |-> <<>>, resp |-> "none", raised |-> FALSE, result |-> None, why |-> "none",
     base |-> None, from |-> None, goto |-> FALSE]

\* downloader.download(page, url, target_dir, preferred_title) is entered
NewCall(url, preferred_title, dir) ==
    [NoCall EXCEPT !.url = url, !.title = preferred_title, !.before = dir]

\* run() was not called
NoSession ==
    [phase |-> "none", opened |-> 0, closed |-> 0, attempt |-> 0, prompts |-> 0,
     login |-> "none",
     urls |-> <<>>, items |-> 0, log |-> <<>>, error |-> "none"]

NotResolved == [base_filename |-> None, dir |-> EmptyDir, existed |-> FALSE, target |-> None]

(***************************************************************************)
(* The inputs of the collectors.                                           *)
(***************************************************************************)
hostTrusted == <<"t", "r", "u", "s", "t", "e", "d", ".", "o", "r", "g">>
hostEvil == <<"e", "v", "i", "l", ".", "o", "r", "g">>
baseUrl == sHttps \o hostTrusted

\* a trusted pluginfile URL with a file extension
uTrustedPdf == baseUrl \o <<"/">> \o sPluginfilePhp \o <<"/", "1", "/", "a">> \o sPdf
\* an untrusted pluginfile URL that matches the zip rule
uEvilZip == sHttps \o hostEvil \o <<"/">> \o sPluginfilePhp \o <<"/", "1", "/", "c">> \o sZip
\* a host-relative download-mode link
hRelModeDl == <<"/", "f", "/", "a">> \o sZip \o <<"?">> \o sModeDl
\* a trusted force-download URL without a file extension
uTrustedForce == baseUrl \o <<"/">> \o sPluginfilePhp \o <<"/", "2", "/", "n", "?">> \o sForcedownload1
\* a scheme-relative link to the untrusted host
hNetEvilPdf == <<"/", "/">> \o hostEvil \o <<"/", "b">> \o sPdf
\* a trusted archive link
uTrustedZip == baseUrl \o <<"/", "f", "/", "b">> \o sZip
\* an item page of the course
uItemPage == baseUrl \o <<"/", "m", "o", "d", "/", "v", "i", "e", "w", "?", "i", "d", "=", "1">>

MaxLinks == 2

ElemPool ==
    [tag : {"a"}, href : {uTrustedPdf, uEvilZip, hRelModeDl, uTrustedForce, hNetEvilPdf, uTrustedZip}]
    \cup [tag : {"a.download"}, href : {uTrustedForce, uEvilZip}]
    \cup [tag : {"iframe"}, href : {uTrustedPdf, uEvilZip}]

SeqsUpTo(S, n) == UNION {[1..k -> S] : k \in 0..n}

\* the number of link sources of a page besides its DOM elements
Extras(pg) ==
    (IF Contains(pg.url, sPluginfilePhp) THEN 1 ELSE 0)
    + (IF pg.redirect # None THEN 1 ELSE 0)
    + (IF pg.meta # None THEN 1 ELSE 0)

Pages ==
    {pg \in [url : {uItemPage, uTrustedPdf, uEvilZip},
             redirect : {None, uTrustedPdf, uEvilZip},
             meta : {None, uTrustedForce, uEvilZip},
             elems : SeqsUpTo(ElemPool, MaxLinks)] :
        Len(pg.elems) + Extras(pg) <= MaxLinks}

AllowLists == {{}, {hostTrusted}}

FilterCfgs ==
    [base : {baseUrl},
     allowed_resource_hosts : AllowLists,
     include_mode_raw : BOOLEAN, include_mode_dl : BOOLEAN,
     include_archive_zip : BOOLEAN, include_archive_tgz : BOOLEAN,
     include_images : BOOLEAN, include_pdfs : BOOLEAN,
     replace_existing_files : {FALSE},
     downloader_strategy : {"auto"}]

(***************************************************************************)
(* SpecFilter: a collector is applied to a loaded page.                    *)
(***************************************************************************)
InitFilter ==
    /\ cfg \in FilterCfgs
    /\ page \in Pages
    /\ links = <<>>
    /\ collector = "none"
    /\ self_config = cfg
    /\ disk = EmptyDir
    /\ pc = "collect"
    /\ cur = NoCall
    /\ resolved = NotResolved
    /\ ncalls = 0
    /\ title = None
    /\ idx = 0
    /\ saved = 0
    /\ attempts = <<>>
    /\ counts = <<>>
    /\ supplied = FALSE
    /\ sess = NoSession

CollectRoeselite ==
    /\ collector = "none"
    /\ links' = RoeseliteCollect(cfg, page)
    /\ collector' = "roeselite"
    /\ UNCHANGED <<sess, cfg, page, dlVars, loopVars>>

CollectMoodle ==
    /\ collector = "none"
    /\ links' = MoodleCollect(cfg, page)
    /\ collector' = "moodle"
    /\ UNCHANGED <<sess, cfg, page, dlVars, loopVars>>

CollectLegacy ==
    /\ collector = "none"
    /\ links' = LegacyCollect(cfg, page)
    /\ collector' = "legacy"
    /\ UNCHANGED <<sess, cfg, page, dlVars, loopVars>>

NextFilter == CollectRoeselite \/ CollectMoodle \/ CollectLegacy

SpecFilter == InitFilter /\ [][NextFilter]_vars

\* C1: every URL a collector returns has its host in the allow-list, for every
\* combination of policy flags and every page; with an empty allow-list the
\* collectors return nothing.
C1_OnlyAllowedHosts ==
    /\ \A i \in 1..Len(links) : UrlParse(links[i]).netloc \in cfg.allowed_resource_hosts
    /\ cfg.allowed_resource_hosts = {} => links = <<>>

\* a collector returned a URL through the Moodle fallback branch on a page that
\* also links an untrusted host with a matching rule
C1_Witness ==
    /\ collector = "moodle"
    /\ links # <<>>
    /\ \A i \in 1..Len(links) : ~MoodleShouldInclude(cfg, links[i])
    /\ \E i \in 1..Len(page.elems) : page.elems[i].href = uEvilZip
    /\ cfg.include_archive_zip

(***************************************************************************)
(* SpecDl: download calls, by any strategy, on one target directory.       *)
(***************************************************************************)
nNotesPdf == <<"n", "o", "t", "e", "s">> \o sPdf
tSlides == <<"S", "l", "i", "d", "e", "s">>
cdNotes ==
    <<"a", "t", "t", "a", "c", "h", "m", "e", "n", "t", ";", " ">> \o sFilenameKey
    \o <<"=", "\"">> \o nNotesPdf \o <<"\"">>
sCtPdf == <<"a", "p", "p", "l", "i", "c", "a", "t", "i", "o", "n", "/">> \o sPdfWord
uModeDl == baseUrl \o hRelModeDl
\* an untrusted URL with the path of uTrustedPdf
uEvilPdf == sHttps \o hostEvil \o <<"/">> \o sPluginfilePhp \o <<"/", "1", "/", "a">> \o sPdf
eTrustedPdf == [tag |-> "a", href |-> uTrustedPdf]
eEvilPdf == [tag |-> "a", href |-> uEvilPdf]

\* a file that was in the directory before the run
OldContent == [from |-> None, as |-> "old"]

MaxCalls == 2

DlUrls == {uModeDl, uTrustedPdf}

DlTitles == {None, tSlides}

InitDirs == {EmptyDir, WriteFile(EmptyDir, nNotesPdf, OldContent)}

DlPage == PageAt(uItemPage, <<eTrustedPdf>>)

\* what page.request.get(url, timeout=30_000) and the write of the body can do
ReqEnvs ==
    [kind : {"error", "status"}, cd : {<<>>}, ctype : {<<>>}, write : {"ok"}]
    \cup [kind : {"ok"}, cd : {<<>>, cdNotes}, ctype : {sCtPdf},
          write : {"ok", "partial", "fail"}]

NewElems == {<<>>, <<eEvilPdf>>}

\* what the browser can do on a click, on page.goto(url) and on download.save_as
ClickEnvs ==
    [click : {"download"}, suggested : {<<>>, nNotesPdf}, goto : {"ok"},
     newElems : NewElems, save : {"ok", "partial", "fail"}]
    \cup [click : {"navigated", "timeout", "raises"}, suggested : {<<>>}, goto : {"ok"},
          newElems : NewElems, save : {"ok"}]
    \cup [click : {"timeout"}, suggested : {<<>>}, goto : {"committed", "error"},
          newElems : {<<>>}, save : {"ok"}]

DlCfgs ==
    [base : {baseUrl},
     allowed_resource_hosts : {{hostTrusted}},
     include_mode_raw : {TRUE}, include_mode_dl : {TRUE},
     include_archive_zip : {TRUE}, include_archive_tgz : {TRUE},
     include_images : {FALSE}, include_pdfs : {TRUE},
     replace_existing_files : BOOLEAN,
     downloader_strategy : {"request", "click", "auto"}]

InitDl ==
    /\ cfg \in DlCfgs
    /\ self_config \in {cfg, NoConfig}
    /\ page = DlPage
    /\ links = <<>>
    /\ collector = "none"
    /\ disk \in InitDirs
    /\ pc = "idle"
    /\ cur = NoCall
    /\ resolved = NotResolved
    /\ ncalls = 0
    /\ title = None
    /\ idx = 0
    /\ saved = 0
    /\ attempts = <<>>
    /\ counts = <<>>
    /\ supplied = FALSE
    /\ sess = NoSession

\* a caller calls downloader.download(page, url, target_dir, preferred_title)
Call ==
    /\ pc \in {"idle", "returned"}
    /\ ncalls < MaxCalls
    /\ \E url \in DlUrls, preferred_title \in DlTitles :
          cur' = NewCall(url, preferred_title, disk)
    /\ pc' = FirstStage(cfg.downloader_strategy)
    /\ ncalls' = ncalls + 1
    /\ UNCHANGED <<sess, cfg, page, links, collector, self_config, disk, resolved, loopVars>>

Returned(c, stage, out) ==
    [c EXCEPT !.calls = Append(@, <<stage, out.result>>), !.raised = out.raised,
              !.result = out.result, !.why = out.why, !.base = out.base,
              !.from = out.from]

\* RequestDownloader.download runs, alone or as the first stage of AutoDownloader,
\* in one of the environments envs
RequestStage(envs) ==
    /\ pc = "request"
    /\ \E env \in envs :
          LET returns(out) ==
                  /\ disk' = out.files
                  /\ page' = out.page
                  /\ cur' = [Returned(cur, "request", out) EXCEPT !.resp = env.kind]
                  /\ pc' = IF /\ cfg.downloader_strategy = "auto"
                              /\ ~out.raised
                              /\ AutoFallsBack(out.result)
                           THEN "click" ELSE "returned"
          IN  returns(RequestDownload(self_config, page, cur.url, TargetDir, disk, cur.title, env))
    /\ UNCHANGED <<sess, cfg, links, collector, self_config, resolved, ncalls, loopVars>>

DoRequest == RequestStage(ReqEnvs)

\* ClickDownloader.download runs, alone or as the fallback of AutoDownloader, in
\* one of the environments envs
ClickStage(envs) ==
    /\ pc = "click"
    /\ \E env \in envs :
          LET returns(out) ==
                  /\ disk' = out.files
                  /\ page' = out.page
                  /\ cur' = [Returned(cur, "click", out) EXCEPT !.goto = out.goto]
                  /\ pc' = "returned"
          IN  returns(ClickDownload(self_config, page, cur.url, TargetDir, disk, cur.title, env))
    /\ UNCHANGED <<sess, cfg, links, collector, self_config, resolved, ncalls, loopVars>>

DoClick == ClickStage(ClickEnvs)

\* a direct call of downloader._get_unique_filename(base_filename, target_dir), for
\* notes.pdf or for the name the last download resolved
Resolve ==
    /\ pc \in {"idle", "returned"}
    /\ \E base_filename \in {nNotesPdf} \cup (IF cur.base = None THEN {} ELSE {cur.base}) :
          resolved' = [base_filename |-> base_filename,
                       dir |-> disk,
                       existed |-> Exists(disk, base_filename),
                       target |-> get_unique_filename(self_config, base_filename, TargetDir, disk)]
    /\ pc' = "resolved"
    /\ UNCHANGED <<sess, cfg, page, links, collector, self_config, disk, cur, ncalls, loopVars>>

\* one whole call of downloader.download under the strategy: the stages that ran
\* with their results, and the outcome of the last one
Download(strategy, config, pg, url, target_dir, files, preferred_title, renv, cenv) ==
    LET one(stage, out) == [calls |-> <<<<stage, out.result>>>>, out |-> out]
        two(r, out) ==
            [calls |-> <<<<"request", r.result>>, <<"click", out.result>>>>, out |-> out]
        after(r) ==
            IF strategy = "auto" /\ ~r.raised /\ AutoFallsBack(r.result)
            THEN two(r, ClickDownload(config, r.page, url, target_dir, r.files,
                                      preferred_title, cenv))
            ELSE one("request", r)
    IN  IF FirstStage(strategy) = "click"
        THEN one("click", ClickDownload(config, pg, url, target_dir, files, preferred_title, cenv))
        ELSE after(RequestDownload(config, pg, url, target_dir, files, preferred_title, renv))

\* the caller makes the same call twice, one after the other: the same URL and
\* title, and the server and the browser answer the second time as the first
Rerun ==
    /\ pc = "idle"
    /\ \E url \in DlUrls, preferred_title \in DlTitles,
          renv \in (IF FirstStage(cfg.downloader_strategy) = "click" THEN {NoReqEnv} ELSE ReqEnvs),
          cenv \in (IF cfg.downloader_strategy = "request" THEN {NoClkEnv} ELSE ClickEnvs) :
          LET second(d1, d2) ==
                  /\ disk' = d2.out.files
                  /\ page' = d2.out.page
                  /\ cur' = [NewCall(url, preferred_title, d1.out.files) EXCEPT
                                !.rerun = TRUE, !.firstOk = ~Falsy(d1.out.result),
                                !.calls = d2.calls, !.resp = renv.kind,
                                !.raised = d2.out.raised,
                                !.result = d2.out.result, !.why = d2.out.why,
                                !.base = d2.out.base, !.from = d2.out.from]
              first(d1) ==
                  second(d1, Download(cfg.downloader_strategy, self_config, d1.out.page, url,
                                      TargetDir, d1.out.files, preferred_title, renv, cenv))
          IN  first(Download(cfg.downloader_strategy, self_config, page, url, TargetDir,
                             disk, preferred_title, renv, cenv))
    /\ pc' = "reran"
    /\ UNCHANGED <<sess, cfg, links, collector, self_config, resolved, ncalls, loopVars>>

NextDl == Call \/ DoRequest \/ DoClick \/ Resolve \/ Rerun

SpecDl == InitDl /\ [][NextDl]_vars

\* the skip policy: replace_existing_files is false, or the downloader has no config
SkipPolicy == ~ConfigGiven(self_config) \/ ~self_config.replace_existing_files

\* C3: under the skip policy every file that was in the target directory before
\* a download call is still there, with the content it had, at every point of
\* the call and after it, whatever the strategy and whatever calls came before.
C3_NoSilentOverwrite ==
    SkipPolicy =>
        \A n \in DOMAIN cur.before : Exists(disk, n) /\ disk[n] = cur.before[n]

\* a second call resolved to the name an earlier call of the run had written,
\* and was skipped
C3_Witness ==
    /\ pc = "returned"
    /\ SkipPolicy
    /\ ncalls = 2
    /\ cur.why = "exists"
    /\ Exists(cur.before, cur.base)
    /\ cur.before[cur.base].as \in {"bytes", "text", "download"}
    /\ disk = cur.before

\* C5: _get_unique_filename(name, dir) returns dir/name when no file is there;
\* when one is there it returns dir/name if replace_existing_files is true and
\* None otherwise; it returns nothing else, and it leaves the directory as it was.
C5_ResolverTable ==
    resolved.base_filename # None =>
        /\ resolved.target =
              IF ~resolved.existed \/ ~SkipPolicy
              THEN PathJoin(TargetDir, resolved.base_filename)
              ELSE None
        /\ disk = resolved.dir

\* the resolver was asked again for a target that a download of the run had
\* written, under the skip policy
C5_Witness ==
    /\ pc = "resolved"
    /\ SkipPolicy
    /\ resolved.existed
    /\ disk[resolved.base_filename].as \in {"bytes", "text", "download"}
    /\ resolved.target = None

\* the same, under the overwrite policy
C5_WitnessOverwrite ==
    /\ pc = "resolved"
    /\ ~SkipPolicy
    /\ resolved.existed
    /\ disk[resolved.base_filename].as \in {"bytes", "text", "download"}
    /\ resolved.target = PathJoin(TargetDir, resolved.base_filename)

\* C6: under the skip policy, the second of two identical download calls (the
\* same URL and title, the same answers of the server and the browser) returns
\* None and leaves the directory as the first call left it.  Stated for the
\* strategies of one stage, request and click.
C6_RerunIdempotent ==
    (/\ pc = "reran"
     /\ SkipPolicy
     /\ cfg.downloader_strategy \in {"request", "click"})
    => (cur.result = None /\ disk = cur.before)

\* C7: a download call never lets an exception out: whatever the request, the
\* browser and the filesystem do, the call returns a file name or None.
C7_NeverRaises == ~cur.raised

\* a write failed half way: the exception was caught, the call returned None and
\* the partial file stayed
C7_Witness ==
    /\ pc = "returned"
    /\ cur.why = "error"
    /\ cur.result = None
    /\ \E n \in DOMAIN disk : disk[n].as = "partial"

\* C9: when the response of Direct-Fetch is not OK, RequestDownloader.download
\* returns None and the target directory is as it was before the call.
C9_NotOkWritesNothing ==
    (/\ cur.resp = "status"
     /\ cur.calls # <<>>
     /\ cur.calls[Len(cur.calls)][1] = "request")
    => (cur.result = None /\ ~cur.raised /\ disk = cur.before)

\* a request downloader got a response that was not OK, on a directory with files
C9_Witness ==
    /\ pc = "returned"
    /\ cfg.downloader_strategy = "request"
    /\ cur.resp = "status"
    /\ cur.before # EmptyDir
    /\ cur.result = None

\* C22: when ClickDownloader.download gets no download (no link to click on
\* the page nor behind the URL, the download event does not arrive, or finding
\* or clicking raises) it returns None and the target directory is as it was;
\* and it calls page.goto(url) only when no link of the current page matched
\* the path of the URL.
C22_ClickFailureOutcomes ==
    [][(pc = "click" /\ pc' = "returned") =>
          /\ (cur'.why \in {"nolink", "error"} /\ cur'.base = None)
             => (cur'.result = None /\ ~cur'.raised /\ disk' = disk)
          /\ cur'.goto => FindLink(page, UrlParse(cur.url).path) = 0]_vars

\* the click downloader found no link for the URL on the page, went to the URL,
\* found nothing to click there and returned None, on a directory with files
C22_Witness ==
    /\ pc = "returned"
    /\ cfg.downloader_strategy = "click"
    /\ cur.why = "nolink"
    /\ cur.goto
    /\ cur.result = None
    /\ cur.before # EmptyDir
    /\ disk = cur.before

\* the click on a link of the page brought no download: None, no page.goto
C22_WitnessNoEvent ==
    /\ pc = "returned"
    /\ cfg.downloader_strategy = "click"
    /\ cur.why = "error"
    /\ cur.base = None
    /\ ~cur.goto
    /\ cur.result = None
    /\ disk = cur.before

\* C27: when a download call of any strategy returns a file name, a file of
\* that name is in the target directory right after the call; and a stage that
\* returns None because the file exists (skip) or because the response was not
\* OK leaves the set of files, and the files, as they were.
C27_ResultBackedByFile ==
    [][(pc = "request" \/ pc = "click") =>
          /\ cur'.result # None
             => (Exists(disk', cur'.result) /\ disk'[cur'.result].as # "partial")
          /\ cur'.why \in {"exists", "http"} => (cur'.result = None /\ disk' = disk)]_vars

\* Auto: Direct-Fetch got a response that was not OK and wrote nothing, the
\* click fallback returned a file name and the file is in the directory
C27_Witness ==
    /\ pc = "returned"
    /\ cfg.downloader_strategy = "auto"
    /\ cur.resp = "status"
    /\ Len(cur.calls) = 2
    /\ cur.result # None
    /\ Exists(disk, cur.result)
    /\ ~Exists(cur.before, cur.result)

\* a click download was skipped because its file exists
C27_WitnessSkip ==
    /\ pc = "returned"
    /\ cfg.downloader_strategy = "click"
    /\ cur.why = "exists"
    /\ cur.result = None
    /\ disk = cur.before

\* C28: under the Auto strategy a Direct-Fetch that returned None because the
\* file exists is not followed by a Simulated-Click attempt: the click
\* downloader never runs after a skip.
C28_SkipIsFinal ==
    [][(pc = "click" /\ pc' = "returned") => cur.why # "exists"]_vars

(***************************************************************************)
(* SpecRun: the run loop of a scraper.  Each item page is loaded, its      *)
(* attachments are collected and _save_attachments downloads them one      *)
(* after the other into the page's target directory.                       *)
(***************************************************************************)
\* a second trusted PDF with the base name of uTrustedPdf
uTrustedPdf2 == baseUrl \o <<"/">> \o sPluginfilePhp \o <<"/", "2", "/", "a">> \o sPdf
eTrustedPdf2 == [tag |-> "a", href |-> uTrustedPdf2]
eModeDl == [tag |-> "a", href |-> hRelModeDl]

MaxPages == 2

ItemPages ==
    {PageAt(uItemPage, <<eTrustedPdf, eTrustedPdf2>>),
     PageAt(uItemPage, <<eEvilPdf, eTrustedPdf>>),
     PageAt(uItemPage, <<eModeDl, eEvilPdf>>),
     PageAt(uItemPage, <<>>),
     PageAt(uItemPage, <<[tag |-> "iframe", href |-> uTrustedPdf]>>),
     PageAt(uTrustedPdf, <<>>)}

\* the answers of the server and the browser during a run
LoopReqEnvs ==
    [kind : {"error", "status"}, cd : {<<>>}, ctype : {<<>>}, write : {"ok"}]
    \cup [kind : {"ok"}, cd : {<<>>}, ctype : {sCtPdf}, write : {"ok", "fail"}]

LoopClickEnvs ==
    [click : {"download"}, suggested : {<<>>}, goto : {"ok"},
     newElems : NewElems, save : {"ok"}]
    \cup [click : {"timeout"}, suggested : {<<>>}, goto : {"ok", "error"},
          newElems : {<<>>}, save : {"ok"}]

\* self.collect_attachments(page) of the scraper class
Collect(c, pg, scraper) ==
    IF scraper = "moodle" THEN MoodleCollect(c, pg) ELSE RoeseliteCollect(c, pg)

CountedAlways(filename) == TRUE

\* `if filename: saved += 1`
Counted(filename) == ~Falsy(filename)

\* what _save_attachments keeps of a download call that ended
Attempt(c, counted) ==
    [url |-> c.url, calls |-> c.calls, raised |-> c.raised, result |-> c.result,
     why |-> c.why, base |-> c.base, from |-> c.from, counted |-> counted]

InitRun ==
    /\ cfg \in DlCfgs
    /\ self_config = cfg
    /\ page = PageAt(baseUrl, <<>>)
    /\ links = <<>>
    /\ collector \in {"roeselite", "moodle"}
    /\ disk = EmptyDir
    /\ pc = "run"
    /\ cur = NoCall
    /\ resolved = NotResolved
    /\ ncalls = 0
    /\ title = None
    /\ idx = 0
    /\ saved = 0
    /\ attempts = <<>>
    /\ counts = <<>>
    /\ supplied \in BOOLEAN
    /\ sess = NoSession

\* run(): page.goto(url) for the next item page.  BaseScraper.run makes a folder
\* of its own for every page; MoodleScraper.run uses the folder of the
\* resource's section, the one of the page before or a new one, and passes the
\* title of the resource link
LoadPage ==
    /\ pc = "run"
    /\ Len(counts) < MaxPages
    /\ page' \in ItemPages
    /\ title' \in (IF collector = "moodle" THEN DlTitles ELSE {None})
    /\ disk' \in (IF collector = "moodle" THEN {disk, EmptyDir} ELSE {EmptyDir})
    /\ pc' = "page"
    /\ UNCHANGED <<sess, cfg, links, collector, self_config, cur, resolved, ncalls,
                   idx, saved, attempts, counts, supplied>>

\* _save_attachments is entered: the links are collected; without links it returns 0
SaveStart ==
    /\ pc = "page"
    /\ links' = Collect(cfg, page, collector)
    /\ attempts' = <<>>
    /\ saved' = 0
    /\ IF links' = <<>>
       THEN /\ counts' = Append(counts, 0)
            /\ idx' = 0
            /\ pc' = "run"
       ELSE /\ counts' = counts
            /\ idx' = 1
            /\ pc' = "loop"
    /\ UNCHANGED <<sess, cfg, page, collector, self_config, disk, cur, resolved, ncalls,
                   title, supplied>>

\* `for url in links: try: filename = downloader.download(page, url, dir, title)`
LoopCall ==
    /\ pc = "loop"
    /\ idx <= Len(links)
    /\ cur' = NewCall(links[idx], title, disk)
    /\ pc' = IF supplied THEN "custom" ELSE FirstStage(cfg.downloader_strategy)
    /\ UNCHANGED <<sess, cfg, page, links, collector, self_config, disk, resolved, ncalls, loopVars>>

LoopRequest == RequestStage(LoopReqEnvs)

LoopClick == ClickStage(LoopClickEnvs)

\* the download method of a downloader the caller supplied: it returns a file
\* name or None, or it raises
DoCustom ==
    /\ pc = "custom"
    /\ \E raised \in BOOLEAN, result \in {None, nNotesPdf} :
          /\ raised => result = None
          /\ cur' = [cur EXCEPT !.calls = <<<<"custom", result>>>>, !.raised = raised,
                                !.result = result]
    /\ pc' = "returned"
    /\ UNCHANGED <<sess, cfg, page, links, collector, self_config, disk, resolved, ncalls, loopVars>>

\* the call ended: `if filename: saved += 1`, or `except Exception`; then the next URL
LoopReturn ==
    /\ pc = "returned"
    /\ attempts' = Append(attempts, Attempt(cur, ~cur.raised /\ Counted(cur.result)))
    /\ saved' = IF ~cur.raised /\ Counted(cur.result) THEN saved + 1 ELSE saved
    /\ idx' = idx + 1
    /\ pc' = "loop"
    /\ UNCHANGED <<sess, cfg, page, links, collector, self_config, disk, cur, resolved, ncalls,
                   title, counts, supplied>>

\* the loop is over: `return saved`
SaveReturn ==
    /\ pc = "loop"
    /\ idx > Len(links)
    /\ counts' = Append(counts, saved)
    /\ pc' = "run"
    /\ UNCHANGED <<sess, cfg, page, links, collector, self_config, disk, cur, resolved, ncalls,
                   title, idx, saved, attempts, supplied>>

NextRun ==
    \/ LoadPage \/ SaveStart \/ LoopCall \/ LoopRequest \/ LoopClick
    \/ DoCustom \/ LoopReturn \/ SaveReturn

SpecRun == InitRun /\ [][NextRun]_vars

\* C2: every transfer a downloader strategy saved during the run came from a URL
\* whose host is in allowed_resource_hosts.
C2_SavedOnlyFromAllowedHosts ==
    ~supplied =>
        \A i \in 1..Len(attempts) :
            attempts[i].from # None
            => UrlParse(attempts[i].from).netloc \in cfg.allowed_resource_hosts

\* C4: when a resource of the page resolves to the file name under which an
\* earlier resource of the page was saved, it is saved too, under another name:
\* it is neither skipped nor written over the first.
C4_CollisionGetsOwnName ==
    ~supplied =>
        \A i, j \in 1..Len(attempts) :
            (/\ i < j
             /\ attempts[i].counted
             /\ attempts[j].why \in {"saved", "exists"}
             /\ attempts[j].base = attempts[i].result)
            => attempts[j].result \notin {None, attempts[i].result}

\* C8: under the auto strategy every download call ran Direct-Fetch first; it
\* ran Simulated-Click exactly when Direct-Fetch returned nothing, and then
\* once; the result is Direct-Fetch's file name when there is one and else the
\* result of Simulated-Click; a call in which both returned nothing is not counted.
C8_AutoOrder ==
    (cfg.downloader_strategy = "auto" /\ ~supplied) =>
        \A i \in 1..Len(attempts) :
            /\ Len(attempts[i].calls) \in {1, 2}
            /\ attempts[i].calls[1][1] = "request"
            /\ (Len(attempts[i].calls) = 2) = Falsy(attempts[i].calls[1][2])
            /\ Len(attempts[i].calls) = 2 => attempts[i].calls[2][1] = "click"
            /\ attempts[i].result = attempts[i].calls[Len(attempts[i].calls)][2]
            /\ Falsy(attempts[i].result) => ~attempts[i].counted

\* Direct-Fetch and then Simulated-Click both returned nothing, and the
\* attachment was not counted
C8_Witness ==
    /\ cfg.downloader_strategy = "auto"
    /\ ~supplied
    /\ \E i \in 1..Len(attempts) :
          /\ Len(attempts[i].calls) = 2
          /\ attempts[i].calls[1][2] = None
          /\ attempts[i].calls[2][2] = None
          /\ ~attempts[i].counted
    /\ saved = 0

\* Simulated-Click saved what Direct-Fetch could not
C8_WitnessFallbackSaved ==
    /\ cfg.downloader_strategy = "auto"
    /\ ~supplied
    /\ \E i \in 1..Len(attempts) :
          /\ Len(attempts[i].calls) = 2
          /\ attempts[i].calls[2][2] # None
          /\ attempts[i].counted

\* the download calls of the page that returned a file name
Successes ==
    Cardinality({i \in 1..Len(attempts) :
                    ~attempts[i].raised /\ ~Falsy(attempts[i].result)})

\* C10: _save_attachments calls download for the collected URLs one by one in
\* list order, each once, whether or not earlier calls returned None or
\* raised; when it returns, every URL was attempted and the count it returns is
\* the number of calls that returned a file name.
C10_EveryUrlOnceInOrder ==
    /\ \A i, j \in 1..Len(links) : links[i] = links[j] => i = j
    /\ \A i \in 1..Len(attempts) : i <= Len(links) /\ attempts[i].url = links[i]
    /\ pc \in {"loop", "custom", "request", "click", "returned"} =>
          /\ Len(attempts) = idx - 1
          /\ saved = Successes
          /\ pc # "loop" => (idx <= Len(links) /\ cur.url = links[idx])
    /\ (pc = "run" /\ counts # <<>>) =>
          /\ Len(attempts) = Len(links)
          /\ counts[Len(counts)] = Successes

\* the first download of a page raised, the second was made and saved, and the
\* page returned 1
C10_Witness ==
    /\ pc = "run"
    /\ Len(attempts) = 2
    /\ attempts[1].raised
    /\ attempts[2].counted
    /\ counts # <<>>
    /\ counts[Len(counts)] = 1

\* a second page was processed after a page on which a download failed
C10_WitnessRunGoesOn ==
    /\ pc = "run"
    /\ Len(counts) = 2
    /\ counts[1] = 0
    /\ counts[2] = 2

\* C29: while the attachments of an item page are processed the browser stays
\* on that page: no stage of a download call, by any strategy and whether it
\* succeeds or fails, leaves the page at another URL.
C29_PageStaysOnItemPage ==
    [][(pc = "request" \/ pc = "click" \/ pc = "custom") => page'.url = page.url]_vars

\* C30: when _save_attachments has returned, the number it returned for the page
\* equals the number of distinct files of the target folder that the page's
\* download calls created or rewrote.
C30_SavedCountExact ==
    (pc = "run" /\ counts # <<>> /\ ~supplied) =>
        counts[Len(counts)]
        = Cardinality({attempts[i].result :
                          i \in {j \in 1..Len(attempts) : attempts[j].from # None}})

(***************************************************************************)
(* SpecSession: run() of BaseScraper (used by RoeseliteScraper) and of     *)
(* MoodleScraper, from the launch of the browser context to its end: the   *)
(* start page, the login with its retries, the list of item pages and the  *)
(* visit of each of them.  What happens inside _save_attachments is        *)
(* SpecRun; here a page is handled in one step.                            *)
(***************************************************************************)
\* `max_attempts = 5` of _login
max_attempts == 5

MaxItems == 3

\* the most credential prompts of a login that the model follows
MaxPrompts == 7

\* the most attachments _save_attachments finds on an item page
MaxAtts == 2

\* a second item page of the course
uItemPage2 == baseUrl \o <<"/", "m", "o", "d", "/", "v", "i", "e", "w", "?", "i", "d", "=", "2">>

\* the hrefs of the start page that match as item pages, in document order
ItemHrefs == SeqsUpTo({uItemPage, uItemPage2, uTrustedForce}, MaxItems)

\* what page.goto does: it returns, it times out, or it raises another error
NavOutcomes == {"ok", "timeout", "error"}

\* one iteration of the `while attempt < max_attempts` loop of _login: empty
\* input, the login page cannot be loaded, a form field is missing, filling or
\* clicking raises, the browser is still on the login page, or the login worked
LoginOutcomes ==
    {"empty", "goto_failed", "no_field", "input_failed", "still_on_login", "success"}

\* the attempt counter after an iteration: empty input is not counted
LoginCount(attempt, outcome) == IF outcome = "empty" THEN attempt ELSE attempt + 1

LoginPhaseGoesOn(attempt, outcome) ==
    IF outcome \in {"empty", "goto_failed", "no_field", "input_failed", "still_on_login"}
          /\ attempt < max_attempts
    THEN "login" ELSE "authed"

\* where run() is after an iteration of _login that counted `attempt`: the
\* loop goes on (`if attempt < max_attempts: continue`), _login raises and
\* neither ensure_logged_in nor run catches it, or _login returns
LoginPhase(attempt, outcome) ==
    IF outcome = "success" THEN "authed"
    ELSE IF outcome = "empty" \/ attempt < max_attempts THEN "login"
    ELSE "failed"

NavCaughtTimeoutOnly(scraper, nav) == scraper = "moodle" /\ nav = "timeout"

\* is a failure of page.goto(url) for an item page caught by run()?
\* MoodleScraper.run: `except PlaywrightTimeoutError: continue` and
\* `except Exception: continue`; BaseScraper.run has no handler
NavCaught(scraper, nav) == scraper = "moodle"

\* the entry of an item page in the log of the run: its place in the list, what
\* page.goto(url) did, whether its attachments were collected, how many there
\* are (todo) and how many download calls have returned (downloads)
Visit(item, url, nav, collected, todo) ==
    [item |-> item, url |-> url, nav |-> nav, collected |-> collected, todo |-> todo,
     downloads |-> 0]

PageDoneAlways(log) == TRUE

\* the `for url in atts` loop of _save_attachments for the last page visited
\* has run to its end, so that run() is back in its loop over the item pages
PageDone(log) ==
    IF log = <<>> THEN TRUE ELSE log[Len(log)].downloads = log[Len(log)].todo

\* run() ends with an exception
Abort(s, error) == [s EXCEPT !.phase = "failed", !.error = error]

InitSession ==
    /\ cfg \in {c \in DlCfgs : c.downloader_strategy = "auto" /\ ~c.replace_existing_files}
    /\ self_config = cfg
    /\ page = PageAt(baseUrl, <<>>)
    /\ links = <<>>
    /\ collector \in {"roeselite", "moodle"}
    /\ disk = EmptyDir
    /\ pc = "session"
    /\ cur = NoCall
    /\ resolved = NotResolved
    /\ ncalls = 0
    /\ title = None
    /\ idx = 0
    /\ saved = 0
    /\ attempts = <<>>
    /\ counts = <<>>
    /\ supplied = FALSE
    /\ sess = [NoSession EXCEPT !.phase = "run"]

sessOnly == <<cfg, page, links, collector, dlVars, loopVars>>

\* `ctx = p.chromium.launch_persistent_context(...)`, `page = ctx.new_page()`
Launch ==
    /\ sess.phase = "run"
    /\ \E ok \in BOOLEAN :
          sess' = IF ok THEN [sess EXCEPT !.phase = "launched", !.opened = @ + 1]
                  ELSE Abort(sess, "launch")
    /\ UNCHANGED sessOnly

\* `page.goto(start_url)`
GotoStart ==
    /\ sess.phase = "launched"
    /\ \E nav \in NavOutcomes :
          sess' = IF nav = "ok" THEN [sess EXCEPT !.phase = "check"]
                  ELSE Abort(sess, "start")
    /\ UNCHANGED sessOnly

\* ensure_logged_in(page): _login is called when the browser is on a login
\* page (for Moodle also on an SSO login page); otherwise it returns
EnsureLoggedIn ==
    /\ sess.phase = "check"
    /\ \E on_login_page \in BOOLEAN :
          sess' = IF on_login_page
                  THEN [sess EXCEPT !.phase = "login", !.login = "asked"]
                  ELSE [sess EXCEPT !.phase = "authed", !.login = "not_needed"]
    /\ UNCHANGED sessOnly

\* one iteration of the loop of _login: it prompts for the credentials
\* (`input("Username: ")`) and counts the attempt unless the input was empty
LoginAttempt ==
    /\ sess.phase = "login"
    /\ sess.prompts < MaxPrompts
    /\ \E outcome \in LoginOutcomes :
          sess' = [sess EXCEPT
                     !.prompts = @ + 1,
                     !.attempt = LoginCount(sess.attempt, outcome),
                     !.login = outcome,
                     !.phase = LoginPhase(LoginCount(sess.attempt, outcome), outcome),
                     !.error = IF LoginPhase(LoginCount(sess.attempt, outcome), outcome)
                                    = "failed"
                               THEN "auth" ELSE @]
    /\ UNCHANGED sessOnly

\* `page.goto(start_url, wait_until="networkidle")` and collect_item_pages /
\* collect_resource_links
ListItems ==
    /\ sess.phase = "authed"
    /\ \E nav \in NavOutcomes, hrefs \in ItemHrefs, raised \in BOOLEAN :
          sess' = IF nav # "ok" THEN Abort(sess, "start")
                  ELSE IF raised THEN Abort(sess, "list")
                  ELSE [sess EXCEPT !.phase = "pages", !.urls = Dedup(hrefs),
                                    !.items = Len(Dedup(hrefs))]
    /\ UNCHANGED sessOnly

\* the next iteration of the loop over the item pages: page.goto(url), the
\* folder, (BaseScraper: save_pdf) and the collect_attachments call of
\* _save_attachments
VisitPage ==
    /\ sess.phase = "pages"
    /\ Len(sess.log) < sess.items
    /\ PageDone(sess.log)
    /\ \E nav \in NavOutcomes, raised \in BOOLEAN, n \in 0..MaxAtts :
          LET visit(k, collected, todo) ==
                  [sess EXCEPT
                     !.log = Append(@, Visit(k, sess.urls[k], nav, collected, todo))]
          IN  sess' =
                 IF nav # "ok"
                 THEN IF NavCaught(collector, nav)
                      THEN visit(Len(sess.log) + 1, FALSE, 0)
                      ELSE Abort(visit(Len(sess.log) + 1, FALSE, 0), "nav")
                 ELSE IF raised
                      THEN Abort(visit(Len(sess.log) + 1, FALSE, 0), "page")
                      ELSE visit(Len(sess.log) + 1, TRUE, n)
    /\ UNCHANGED sessOnly

\* one iteration of the `for url in atts` loop of _save_attachments: a call of
\* downloader.download returns
SaveAttachment ==
    /\ sess.phase = "pages"
    /\ ~PageDone(sess.log)
    /\ sess' = [sess EXCEPT !.log[Len(sess.log)].downloads = @ + 1]
    /\ UNCHANGED sessOnly

\* the loop is over: `ctx.close()`
CloseCtx ==
    /\ sess.phase = "pages"
    /\ Len(sess.log) = sess.items
    /\ PageDone(sess.log)
    /\ sess' = [sess EXCEPT !.phase = "done", !.closed = @ + 1]
    /\ UNCHANGED sessOnly

NextSession ==
    \/ Launch \/ GotoStart \/ EnsureLoggedIn \/ LoginAttempt
    \/ ListItems \/ VisitPage \/ SaveAttachment \/ CloseCtx

SpecSession == InitSession /\ [][NextSession]_vars

\* C11: in MoodleScraper.run a failed navigation to an item page (a timeout or
\* any other error) skips that page: nothing is collected or downloaded for
\* it, the run does not end by it, and the later item pages are still visited;
\* a run that completes has visited every item page, in order.
C11_MoodleSkipsFailedNavigation ==
    collector = "moodle" =>
        /\ \A k \in 1..Len(sess.log) :
              /\ sess.log[k].item = k
              /\ sess.log[k].nav # "ok"
                 => /\ ~sess.log[k].collected
                    /\ sess.log[k].downloads = 0
                    /\ k < sess.items => (sess.phase = "pages" \/ Len(sess.log) > k)
        /\ sess.error # "nav"
        /\ sess.phase = "done" => Len(sess.log) = sess.items

\* a Moodle run that completed: the first page timed out, the second raised
\* another error, the third was processed
C11_Witness ==
    /\ collector = "moodle"
    /\ sess.phase = "done"
    /\ Len(sess.log) = 3
    /\ sess.log[1].nav = "timeout"
    /\ sess.log[2].nav = "error"
    /\ sess.log[3].collected

\* C12: in BaseScraper.run a failed navigation to an item page does not end
\* the run: the page is skipped and the later item pages are still visited.
C12_BaseRunSkipsFailedNavigation ==
    collector = "roeselite" =>
        /\ sess.error # "nav"
        /\ \A k \in 1..Len(sess.log) :
              (sess.log[k].nav # "ok" /\ k < sess.items)
              => (sess.phase = "pages" \/ Len(sess.log) > k)

\* C13: when the login failed on every attempt up to max_attempts, run() has
\* ended with the authentication error; after an authentication error no item
\* page was listed or visited and nothing was downloaded; item pages are only
\* visited after a login that worked or was not needed.
C13_AuthFailureAborts ==
    /\ (sess.attempt >= max_attempts /\ sess.login # "success")
       => (sess.phase = "failed" /\ sess.error = "auth")
    /\ sess.error = "auth"
       => (sess.phase = "failed" /\ sess.items = 0 /\ sess.log = <<>>)
    /\ (sess.phase \in {"authed", "pages", "done"} \/ sess.log # <<>>)
       => sess.login \in {"not_needed", "success"}

\* the login failed max_attempts times and the run has ended
C13_Witness ==
    /\ sess.phase = "failed"
    /\ sess.error = "auth"
    /\ sess.attempt = max_attempts
    /\ sess.login = "still_on_login"
    /\ sess.log = <<>>

\* C24: _login prompts for credentials at most max_attempts times: after that
\* many prompts it has returned or raised, whatever was typed.
C24_LoginPromptsBounded ==
    /\ sess.prompts <= max_attempts
    /\ sess.prompts = max_attempts => sess.phase # "login"

C23_RunOrdering ==
    /\ sess.log # <<>> => sess.login \in {"not_needed", "success"}
    /\ Len(sess.log) <= Len(sess.urls)
    /\ \A k \in 1..Len(sess.log) :
          /\ sess.log[k].url = sess.urls[k]
          /\ \A j \in 1..Len(sess.log) : sess.log[j].url = sess.log[k].url => j = k
          /\ sess.log[k].downloads <= sess.log[k].todo
          /\ k < Len(sess.log) => sess.log[k].downloads = sess.log[k].todo

\* a run after a login that visited two item pages, the first with all of its
\* downloads made before the second was loaded
C23_Witness ==
    /\ sess.login = "success"
    /\ sess.phase = "done"
    /\ Len(sess.log) = 2
    /\ sess.log[1].todo = MaxAtts
    /\ sess.log[1].downloads = MaxAtts
    /\ sess.log[2].downloads = 1

(***************************************************************************)
(* SpecRules: the collectors on pages of anchors whose URLs differ in what *)
(* the inclusion rules look at: the extension, the query string, the mode  *)
(* parameters, the host and the Moodle file-serving markers.               *)
(***************************************************************************)
hostUntrusted == <<"u", "n">> \o hostTrusted
hostSub == <<"s", "u", "b", ".">> \o hostTrusted
\* an allow-list entry written as a wildcard
sWildTrusted == <<"*", ".">> \o hostTrusted

uAZip == baseUrl \o <<"/", "a">> \o sZip
uBPdf == baseUrl \o <<"/", "b">> \o sPdf
uCZipUntrusted == sHttps \o hostUntrusted \o <<"/", "c">> \o sZip
\* an archive on a subdomain of the trusted host
uSubZip == sHttps \o hostSub \o <<"/", "a">> \o sZip
\* an archive with a query string after the path
uZipQuery == uAZip \o <<"?", "v", "=", "1">>
\* a download-mode link whose query string ends in .zip
uDlZip == baseUrl \o <<"/", "v", "?">> \o sModeDl \o <<"&", "f", "=", "a">> \o sZip
uRaw == baseUrl \o <<"/", "r", "?">> \o sModeRaw
uImgUpper == baseUrl \o <<"/", "i", ".", "P", "N", "G">>
uTarGz == baseUrl \o <<"/", "s">> \o sTarGz

MaxCands == 2

RuleHrefs ==
    {uAZip, uBPdf, uCZipUntrusted, uSubZip, uZipQuery, uDlZip, uRaw, uImgUpper, uTarGz,
     uTrustedPdf, uTrustedForce}

Anchor(href) == [tag |-> "a", href |-> href]

\* the page of the scenario: a.zip and b.pdf on the trusted host, c.zip on another
ScenarioPage == PageAt(uItemPage, <<Anchor(uAZip), Anchor(uBPdf), Anchor(uCZipUntrusted)>>)

RulePages ==
    {PageAt(uItemPage, es) : es \in SeqsUpTo({Anchor(h) : h \in RuleHrefs}, MaxCands)}
    \cup {ScenarioPage}

RuleCfgs ==
    [base : {baseUrl},
     allowed_resource_hosts : {{hostTrusted}, {sWildTrusted}},
     include_mode_raw : BOOLEAN, include_mode_dl : BOOLEAN,
     include_archive_zip : BOOLEAN, include_archive_tgz : BOOLEAN,
     include_images : BOOLEAN, include_pdfs : BOOLEAN,
     replace_existing_files : {FALSE},
     downloader_strategy : {"auto"}]

InitRules ==
    /\ cfg \in RuleCfgs
    /\ page \in RulePages
    /\ links = <<>>
    /\ collector = "none"
    /\ self_config = cfg
    /\ disk = EmptyDir
    /\ pc = "collect"
    /\ cur = NoCall
    /\ resolved = NotResolved
    /\ ncalls = 0
    /\ title = None
    /\ idx = 0
    /\ saved = 0
    /\ attempts = <<>>
    /\ counts = <<>>
    /\ supplied = FALSE
    /\ sess = NoSession

NextRules == CollectRoeselite \/ CollectMoodle \/ CollectLegacy

SpecRules == InitRules /\ [][NextRules]_vars

\* the candidate URLs of a page, in document order
Candidates == [i \in 1..Len(page.elems) |-> full_url(cfg.base, page.elems[i].href)]

InLinks(url) == \E j \in 1..Len(links) : links[j] = url

\* a rule whose policy flag is enabled matches the URL
EnabledRuleMatches(c, url) ==
    \/ c.include_mode_raw /\ Contains(Lower(url), sModeRaw)
    \/ c.include_mode_dl /\ Contains(Lower(url), sModeDl)
    \/ c.include_archive_zip /\ EndsWith(Lower(url), sZip)
    \/ c.include_archive_tgz /\ EndsWithAny(Lower(url), {sTgz, sTarGz, sGz})
    \/ c.include_images /\ EndsWithAny(Lower(url), {sPng, sJpg, sJpeg})
    \/ c.include_pdfs /\ EndsWith(Lower(url), sPdf)

\* C15: the Roeselite collector (and the legacy one) returns a candidate URL
\* if and only if its host is allowed and a rule with an enabled flag matches
\* it, and returns nothing else; with zip allowed and pdf not, the page with
\* a.zip, b.pdf (trusted) and c.zip (untrusted) gives exactly <<a.zip>>.
C15_IncludedIffEnabledRule ==
    collector \in {"roeselite", "legacy"} =>
        /\ \A i \in 1..Len(Candidates) :
              InLinks(Candidates[i])
              <=> (HostAllowed(cfg, Candidates[i]) /\ EnabledRuleMatches(cfg, Candidates[i]))
        /\ \A j \in 1..Len(links) : \E i \in 1..Len(Candidates) : Candidates[i] = links[j]
        /\ (/\ page = ScenarioPage
            /\ cfg.allowed_resource_hosts = {hostTrusted}
            /\ cfg.include_archive_zip
            /\ ~cfg.include_pdfs)
           => links = <<uAZip>>

\* the scenario: zip allowed, pdf not allowed, the trusted host allowed
C15_Witness ==
    /\ collector = "roeselite"
    /\ page = ScenarioPage
    /\ cfg.allowed_resource_hosts = {hostTrusted}
    /\ cfg.include_archive_zip
    /\ ~cfg.include_pdfs
    /\ cfg.include_mode_dl
    /\ links = <<uAZip>>

\* a URL is excluded because the only rules that match it are disabled
C15_WitnessDisabled ==
    /\ collector = "roeselite"
    /\ cfg.allowed_resource_hosts = {hostTrusted}
    /\ page.elems = <<Anchor(uDlZip), Anchor(uImgUpper)>>
    /\ ~cfg.include_mode_dl /\ ~cfg.include_archive_zip /\ cfg.include_images
    /\ links = <<uImgUpper>>

\* the URLs in the order a collector discovers them
Discovered ==
    IF collector = "moodle" THEN MoodleDiscover(cfg, page) ELSE Candidates

FirstAt(xs, x) == CHOOSE i \in 1..Len(xs) : xs[i] = x /\ \A j \in 1..(i - 1) : xs[j] # x

\* C16: the result of the Roeselite and of the Moodle collector has no URL
\* twice, holds only discovered URLs, and lists them in the order of their
\* first discovery.
C16_DedupInDiscoveryOrder ==
    collector \in {"roeselite", "moodle"} =>
        /\ \A i, j \in 1..Len(links) : links[i] = links[j] => i = j
        /\ \A i \in 1..Len(links) : \E k \in 1..Len(Discovered) : Discovered[k] = links[i]
        /\ \A i, j \in 1..Len(links) :
              i < j => FirstAt(Discovered, links[i]) < FirstAt(Discovered, links[j])

\* a URL that is on the page twice and matches two enabled rules is returned
\* once, after a URL discovered before it
C16_Witness ==
    /\ collector = "roeselite"
    /\ cfg.allowed_resource_hosts = {hostTrusted}
    /\ cfg.include_mode_dl /\ cfg.include_archive_zip /\ cfg.include_pdfs
    /\ page.elems \in {<<Anchor(uDlZip), Anchor(uDlZip)>>, <<Anchor(uBPdf), Anchor(uDlZip)>>}
    /\ links \in {<<uDlZip>>, <<uBPdf, uDlZip>>}

\* the Moodle fallback branch returns a URL found by two strategies once
C16_WitnessMoodleFallback ==
    /\ collector = "moodle"
    /\ cfg.allowed_resource_hosts = {hostTrusted}
    /\ ~cfg.include_mode_dl /\ ~cfg.include_mode_raw
    /\ page.elems = <<Anchor(uTrustedForce)>>
    /\ Len(Discovered) = 2
    /\ links = <<uTrustedForce>>

\* the host is a subdomain of the trusted host
IsSubdomain(url) == EndsWith(UrlParse(url).netloc, <<".">> \o hostTrusted)

\* C17: with the allow-list entry *.trusted.org a URL on a subdomain of
\* trusted.org that an enabled rule matches is returned by the collectors.
C17_WildcardSubdomainAccepted ==
    (collector \in {"roeselite", "moodle"} /\ sWildTrusted \in cfg.allowed_resource_hosts) =>
        \A i \in 1..Len(Candidates) :
            (IsSubdomain(Candidates[i]) /\ EnabledRuleMatches(cfg, Candidates[i]))
            => InLinks(Candidates[i])

PathOf(url) == Lower(UrlParse(url).path)

\* C18: in the Roeselite collector the zip and the PDF rule look at the path of
\* the URL: a host-allowed URL whose path ends in .zip (.pdf) is returned when
\* the zip (PDF) flag is enabled, also with a query string after the path; and
\* with only the zip (PDF) flag enabled no URL is returned whose path does not
\* end in .zip (.pdf).
C18_ExtensionOfPath ==
    collector = "roeselite" =>
        \A i \in 1..Len(Candidates) :
            /\ (/\ HostAllowed(cfg, Candidates[i])
                /\ \/ cfg.include_archive_zip /\ EndsWith(PathOf(Candidates[i]), sZip)
                   \/ cfg.include_pdfs /\ EndsWith(PathOf(Candidates[i]), sPdf))
               => InLinks(Candidates[i])
            /\ (/\ InLinks(Candidates[i])
                /\ ~cfg.include_mode_dl /\ ~cfg.include_mode_raw
                /\ ~cfg.include_archive_tgz /\ ~cfg.include_images)
               => \/ cfg.include_archive_zip /\ EndsWith(PathOf(Candidates[i]), sZip)
                  \/ cfg.include_pdfs /\ EndsWith(PathOf(Candidates[i]), sPdf)

\* C19: every URL the Moodle collector discovered (host allowed) that carries
\* pluginfile.php or forcedownload=1 is in its result, whatever the file-type
\* rules say about it and about the other URLs of the page.
C19_MarkedUrlNeverDropped ==
    collector = "moodle" =>
        \A k \in 1..Len(Discovered) :
            HasMoodleMarker(Discovered[k]) => InLinks(Discovered[k])

(***************************************************************************)
(* SpecName: RequestDownloader._extract_filename applied to a URL, the     *)
(* headers of an OK response, a target directory and a preferred title.    *)
(***************************************************************************)
\* a text file: a URL that ends in an extension other than .pdf/.zip/.doc/.docx
uNotesTxt == baseUrl \o <<"/", "f", "/", "n", "o", "t", "e", "s">> \o sTxt
\* content-disposition headers without a file name and with one without extension
cdInline == <<"i", "n", "l", "i", "n", "e">>
cdNoExt ==
    <<"a", "t", "t", "a", "c", "h", "m", "e", "n", "t", ";", " ">> \o sFilenameKey
    \o <<"=", "r", "e", "p", "o", "r", "t">>
sCtPlain == sTextWord \o <<"/", "p", "l", "a", "i", "n">>
\* a download-mode link whose mode value holds an escaped path separator
uModeSlash == uModeDl \o <<"%", "2", "F", "x">>
\* a file name that leads out of the directory, as the server or the browser
\* may suggest it and as a link text may read
nUpPdf == <<".", ".", "/", "x">> \o sPdf
cdUp ==
    <<"a", "t", "t", "a", "c", "h", "m", "e", "n", "t", ";", " ">> \o sFilenameKey
    \o <<"=">> \o nUpPdf

NameUrls == {uTrustedPdf, uModeDl, uNotesTxt, uTrustedForce, uModeSlash}

NameHeaders ==
    [kind : {"ok"}, cd : {<<>>, cdNotes, cdInline, cdNoExt, cdUp},
     ctype : {<<>>, sCtPdf, sCtPlain}, write : {"ok"}]

NameTitles == {None, <<>>, tSlides, nUpPdf}

\* download.suggested_filename
NameSuggestions == {<<>>, nNotesPdf, nUpPdf}

NameDirs == InitDirs \cup {WriteFile(EmptyDir, <<"a">> \o sZip, OldContent)}

\* a call of _extract_filename and the name it returned
NameCall(url, preferred_title, dir, resp, name) ==
    [url |-> url, title |-> preferred_title, before |-> dir, headers |-> resp,
     base |-> name]

InitName ==
    /\ cfg \in {c \in DlCfgs : c.downloader_strategy = "request" /\ ~c.replace_existing_files}
    /\ self_config = cfg
    /\ page = DlPage
    /\ links = <<>>
    /\ collector = "none"
    /\ disk \in NameDirs
    /\ pc = "name"
    /\ cur = NoCall
    /\ resolved = NotResolved
    /\ ncalls = 0
    /\ title \in NameTitles
    /\ idx = 0
    /\ saved = 0
    /\ attempts = <<>>
    /\ counts = <<>>
    /\ supplied = FALSE
    /\ sess = NoSession

\* filename = self._extract_filename(url, resp, target_dir, preferred_title)
ExtractName ==
    /\ pc = "name"
    /\ \E url \in NameUrls, resp \in NameHeaders :
          cur' = NameCall(url, title, disk, resp, extract_filename(url, resp, disk, title))
    /\ pc' = "named"
    /\ UNCHANGED <<sess, cfg, page, links, collector, self_config, disk, resolved, ncalls,
                   loopVars>>

\* ClickDownloader.download names the download it got: preferred_title with an
\* extension, or download.suggested_filename
ClickName ==
    /\ pc = "name"
    /\ \E url \in NameUrls, suggested \in NameSuggestions :
          cur' = NameCall(url, title, disk, [suggested |-> suggested],
                          ClickFilename(url, suggested, title))
    /\ pc' = "click_named"
    /\ UNCHANGED <<sess, cfg, page, links, collector, self_config, disk, resolved, ncalls,
                   loopVars>>

NextName == ExtractName \/ ClickName

SpecName == InitName /\ [][NextName]_vars

\* the extension of the file name the content-disposition header suggests
CdExt(cd) ==
    IF cd = <<>> \/ CdFilename(cd) = None THEN <<>>
    ELSE Splitext(Strip(CdFilename(cd), Whitespace))[2]

\* the extension the headers give: of the suggested name, else of the content type
HeaderExt(resp) ==
    IF CdExt(resp.cd) # <<>> THEN CdExt(resp.cd)
    ELSE IF Contains(Lower(resp.ctype), sPdfWord) THEN sPdf
    ELSE IF Contains(Lower(resp.ctype), sZipWord) THEN sZip
    ELSE <<>>

\* the extension the URL ends in, <<>> when it ends in none
UrlExt(url) ==
    IF EndsWith(url, Splitext(UrlParse(url).path)[2])
    THEN Splitext(UrlParse(url).path)[2] ELSE <<>>

\* C20: the name _extract_filename returns: with a preferred title, the
\* sanitized title plus the extension of the header's file name when it has
\* one, and plus the extension the URL ends in when the headers give none;
\* without a title, the sanitized file name of the content-disposition header;
\* without either, the name suggest_filename derives from the URL path.
C20_FilenamePriority ==
    pc = "named" =>
        /\ (~Falsy(cur.title) /\ CdExt(cur.headers.cd) # <<>>)
           => cur.base = safe_filename(cur.title) \o CdExt(cur.headers.cd)
        /\ (~Falsy(cur.title) /\ HeaderExt(cur.headers) = <<>> /\ UrlExt(cur.url) # <<>>)
           => cur.base = safe_filename(cur.title) \o UrlExt(cur.url)
        /\ (Falsy(cur.title) /\ cur.headers.cd # <<>> /\ CdFilename(cur.headers.cd) # None)
           => cur.base = safe_filename(Strip(CdFilename(cur.headers.cd), Whitespace))
        /\ (Falsy(cur.title) /\ (cur.headers.cd = <<>> \/ CdFilename(cur.headers.cd) = None))
           => cur.base = suggest_filename(cur.url, DOMAIN cur.before)

(***************************************************************************)
(* SpecSafe: utils.safe_filename applied to a text and then to its own     *)
(* result.                                                                 *)
(***************************************************************************)
\* the characters of the texts: a letter, the characters stripped at the ends,
\* whitespace, a separator, an umlaut, an accented letter, a character without
\* ASCII form and one that NFKD turns into a separator
SafeChars == {"a", ".", "_", " ", "/", "U+00FC", "U+00E9", "U+6F22", "U+FF0F"}

MaxText == 3

\* a text two characters short of the default max_len
LongStem == [i \in 1..(SafeMaxLen - 2) |-> "a"]

\* short texts (the empty one included) and texts around and beyond max_len
SafeTexts ==
    SeqsUpTo(SafeChars, MaxText) \cup {LongStem \o s : s \in SeqsUpTo(SafeChars, MaxText)}

\* text, safe_filename(text) and safe_filename(safe_filename(text))
SafeCall(text, once, twice) == [text |-> text, once |-> once, twice |-> twice]

InitSafe ==
    /\ cfg \in {c \in DlCfgs : c.downloader_strategy = "request" /\ ~c.replace_existing_files}
    /\ self_config = cfg
    /\ page = DlPage
    /\ links = <<>>
    /\ collector = "none"
    /\ disk = EmptyDir
    /\ pc = "safe"
    /\ cur = NoCall
    /\ resolved = NotResolved
    /\ ncalls = 0
    /\ title \in SafeTexts
    /\ idx = 0
    /\ saved = 0
    /\ attempts = <<>>
    /\ counts = <<>>
    /\ supplied = FALSE
    /\ sess = NoSession

safeOnly ==
    <<sess, cfg, page, links, collector, self_config, disk, resolved, ncalls, loopVars>>

\* name = safe_filename(text)
Sanitize ==
    /\ pc = "safe"
    /\ cur' = SafeCall(title, safe_filename(title), None)
    /\ pc' = "safe_once"
    /\ UNCHANGED safeOnly

\* safe_filename(name)
SanitizeAgain ==
    /\ pc = "safe_once"
    /\ cur' = SafeCall(cur.text, cur.once, safe_filename(cur.once))
    /\ pc' = "safe_twice"
    /\ UNCHANGED safeOnly

NextSafe == Sanitize \/ SanitizeAgain

SpecSafe == InitSafe /\ [][NextSafe]_vars

\* C21: safe_filename is a fixed point on its own outputs:
\* safe_filename(safe_filename(text)) = safe_filename(text) for every text.
C21_SafeFilenameIdempotent ==
    pc = "safe_twice" => cur.twice = cur.once

\* a text longer than max_len whose cut ended in an underscore has been
\* normalized twice
C21_Witness ==
    /\ pc = "safe_twice"
    /\ Len(cur.text) > SafeMaxLen
    /\ Len(cur.once) < SafeMaxLen
    /\ cur.twice = cur.once

\* a text of separators, dots and non-ASCII characters only has been
\* normalized twice
C21_WitnessPage ==
    /\ pc = "safe_twice"
    /\ cur.text # <<>>
    /\ \A i \in 1..Len(cur.text) : cur.text[i] \in {".", "_", "/", "U+6F22", "U+FF0F"}
    /\ cur.once = sPage
    /\ cur.twice = sPage

(***************************************************************************)
(* SpecLegacy: the legacy Scraper.save_attachments_for_current_page on one *)
(* attachments directory: the links of the page are fetched one after the  *)
(* other and written under a name no file of the directory has.            *)
(***************************************************************************)
nAZip == <<"a">> \o sZip
nA2Zip == <<"a", "_", "2">> \o sZip

\* the largest suffix _k the model follows
MaxSuffix == 5

Digits == <<"1", "2", "3", "4", "5", "6", "7", "8", "9">>

\* f"{stem}_{k}{ext}"
Suffixed(filename, k) ==
    Splitext(filename)[1] \o <<"_", Digits[k]>> \o Splitext(filename)[2]

\* `target = att_dir / filename`, and when it exists the first
\* att_dir / f"{stem}_{k}{ext}", k = 2, 3, ..., that does not
LegacyTarget(filename, files) ==
    IF ~Exists(files, filename) THEN filename
    ELSE Suffixed(filename,
                  CHOOSE k \in 2..MaxSuffix :
                     /\ ~Exists(files, Suffixed(filename, k))
                     /\ \A j \in 2..(k - 1) : Exists(files, Suffixed(filename, j)))

\* one iteration of `for url in links`: what was fetched, the name it was
\* written under (None when nothing was written) and the directory before it
LegacyAttempt(url, resp, name, files) ==
    [url |-> url, resp |-> resp, name |-> name, before |-> files]

\* the body of the try block for one URL: <<directory afterwards, file name
\* written or None, saved or not>>
LegacyFetch(url, files, env) ==
    LET written(name, w) ==
            IF w.raised THEN [files |-> w.files, name |-> None, saved |-> 0]
            ELSE [files |-> w.files, name |-> name, saved |-> 1]
        save(name) ==
            written(name, WriteOutcome(files, name, ResponseContent(url, env), url, env.write))
    IN  IF env.kind = "error" \/ ~RespOk(env)
        THEN [files |-> files, name |-> None, saved |-> 0]
        ELSE save(LegacyTarget(suggest_filename(url, DOMAIN files), files))

LegacyPages ==
    {PageAt(uItemPage, [i \in 1..Len(hs) |-> Anchor(hs[i])]) :
        hs \in SeqsUpTo({uModeDl, uAZip, uModeSlash}, MaxLinks)}

LegacyDirs ==
    {EmptyDir,
     WriteFile(EmptyDir, nAZip, OldContent),
     WriteFile(WriteFile(EmptyDir, nAZip, OldContent), nA2Zip, OldContent)}

\* the responses of page.request.get; the writes succeed
LegacyEnvs ==
    [kind : {"ok", "status", "error"}, cd : {<<>>}, ctype : {<<>>, sCtPlain}, write : {"ok"}]

InitLegacy ==
    /\ cfg \in {c \in DlCfgs : c.downloader_strategy = "request" /\ ~c.replace_existing_files}
    /\ self_config = cfg
    /\ page \in LegacyPages
    /\ links = <<>>
    /\ collector = "none"
    /\ disk \in LegacyDirs
    /\ pc = "legacy"
    /\ cur = NoCall
    /\ resolved = NotResolved
    /\ ncalls = 0
    /\ title = None
    /\ idx = 0
    /\ saved = 0
    /\ attempts = <<>>
    /\ counts = <<>>
    /\ supplied = FALSE
    /\ sess = NoSession

\* `links = self._collect_resource_links(page)`, `saved = 0`
LegacyStart ==
    /\ pc = "legacy"
    /\ links' = LegacyCollect(cfg, page)
    /\ collector' = "legacy"
    /\ cur' = NewCall(None, None, disk)
    /\ pc' = "legacy_loop"
    /\ UNCHANGED <<sess, cfg, page, self_config, disk, resolved, ncalls, loopVars>>

\* one iteration of `for url in links`
LegacySave ==
    /\ pc = "legacy_loop"
    /\ idx < Len(links)
    /\ \E env \in LegacyEnvs :
          LET done(r) ==
                  /\ disk' = r.files
                  /\ saved' = saved + r.saved
                  /\ attempts' = Append(attempts,
                                        LegacyAttempt(links[idx + 1], env.kind, r.name, disk))
          IN  done(LegacyFetch(links[idx + 1], disk, env))
    /\ idx' = idx + 1
    /\ UNCHANGED <<sess, cfg, page, links, collector, self_config, cur, pc, resolved, ncalls,
                   title, counts, supplied>>

\* `return saved` (`return 0` when there are no links)
LegacyReturn ==
    /\ pc = "legacy_loop"
    /\ idx = Len(links)
    /\ counts' = <<saved>>
    /\ pc' = "legacy_done"
    /\ UNCHANGED <<sess, cfg, page, links, collector, self_config, disk, cur, resolved, ncalls,
                   title, idx, saved, attempts, supplied>>

NextLegacy == LegacyStart \/ LegacySave \/ LegacyReturn

SpecLegacy == InitLegacy /\ [][NextLegacy]_vars

\* the name is the suggested one, free before the write, or the suggested one
\* with the smallest suffix _k, k >= 2, that was free
SmallestFree(name, suggested, files) ==
    \/ name = suggested /\ ~Exists(files, suggested)
    \/ /\ Exists(files, suggested)
       /\ \E k \in 2..MaxSuffix :
             /\ name = Suffixed(suggested, k)
             /\ ~Exists(files, name)
             /\ \A j \in 2..(k - 1) : Exists(files, Suffixed(suggested, j))

\* C25: in the legacy save_attachments_for_current_page no file that was in the
\* attachments directory is overwritten; every URL whose fetch succeeded has
\* been written to a new file, under the suggested name or, when that was
\* taken, under <stem>_<k><ext> with the smallest free k >= 2; and the
\* directory has grown by exactly the returned count.
C25_LegacyAlwaysNewFile ==
    pc \in {"legacy_loop", "legacy_done"} =>
        /\ \A n \in DOMAIN cur.before : Exists(disk, n) /\ disk[n] = cur.before[n]
        /\ \A i \in 1..Len(attempts) :
              attempts[i].resp = "ok" =>
                 /\ attempts[i].name # None
                 /\ Exists(disk, attempts[i].name)
                 /\ disk[attempts[i].name].from = attempts[i].url
                 /\ SmallestFree(attempts[i].name,
                                 suggest_filename(attempts[i].url, DOMAIN attempts[i].before),
                                 attempts[i].before)
        /\ Cardinality(DOMAIN disk) = Cardinality(DOMAIN cur.before) + saved
        /\ pc = "legacy_done" => counts = <<saved>>

\* C26: every file name a downloader resolves, from whatever URL, header,
\* suggestion or title, contains no path separator and is neither empty nor
\* a reference to the directory or its parent, so that the file is a direct
\* child of the target directory.
C26_NoSeparatorInFilename ==
    pc \in {"named", "click_named"} =>
        /\ ~Contains(cur.base, <<"/">>)
        /\ cur.base \notin {<<>>, <<".">>, <<".", ".">>}

====
